---- MODULE Spec2Model ----
(***************************************************************************)
(* Verification model of the image-text-enhancement (ITE) library.         *)
(*                                                                         *)
(* The library is a set of in-place passes over a raster.  Each family of  *)
(* passes is modelled as its own state machine (its own Init/Next/Spec)    *)
(* over its own group of variables; the variables of the other families    *)
(* stay at their idle value.                                               *)
(*                                                                         *)
(*   SpecMorph    dilation_square / erosion_square / despeckle_ccl         *)
(*   SpecIntegral calculate_integral_image / get_area_sum and              *)
(*                compute_fused_integrals / get_sum_padded                 *)
(*   SpecEnhance  the stage sequence of enhance                            *)
(*   SpecAMF      adaptive_median_filter, its row-blocks run by workers    *)
(*   SpecBlend    the blend loop of adaptive_gaussian_blur_omp             *)
(*   SpecBin      binarize_otsu / binarize_sauvola / binarize_bataineh     *)
(*   SpecContrast contrast_linear_stretch, called once or twice            *)
(*   SpecColourPass color_pass_inplace                                     *)
(*   SpecOtsu     compute_otsu_threshold                                   *)
(*   SpecCount    the window counting of binarize_bataineh's second pass   *)
(*   SpecDeskew   the early returns and the rotation gate of               *)
(*                deskew_projection_profile                                *)
(*   SpecLuma     to_grayscale_rec601                                      *)
(*   SpecCli      main of the command-line tool: load, warm-up, trials,    *)
(*                write                                                    *)
(*   SpecDeque    sliding_window_max / sliding_window_min, one loop        *)
(*                iteration a step                                         *)
(*   SpecAmfHist  the histogram of adaptive_median_filter, one ring a step *)
(*   SpecSearch   search_best_angle, its threads interleaved               *)
(*   SpecMedian   median9 and hist_min_med_max on the same nine samples    *)
(*                                                                         *)
(* A raster is a record [w, h, s, px] (width, height, spectrum, samples)   *)
(* with px[c][y][x] the sample of channel c at column x of row y, all      *)
(* indices 0-based as in the source.                                       *)
(***************************************************************************)
EXTENDS Integers, Sequences, FiniteSets, TLC

VARIABLES
    m_img,      \* morphology: the raster the passes mutate in place
    m_prev,     \* morphology: the raster as it was before the last call
    m_first,    \* morphology: whether the raster the run started with was binary
    m_op,       \* morphology: the last call, [name, k, t, diag, threw]
    i_src,      \* integral: the source raster
    i_tab,      \* integral: the table returned by calculate_integral_image
    i_S,        \* integral: the caller's vector S, [size, mem]
    i_S2,       \* integral: the caller's vector S2, [size, mem]
    i_pc,       \* integral: "idle", "tab", "fused" or "crashed"
    i_res,      \* integral: the last rectangle query, [kind, x1, y1, x2, y2, value]
    e_pc,       \* enhance: the statement enhance is at
    e_opts,     \* enhance: the arguments of the call
    e_spectrum, \* enhance: the channel count of l_image
    e_trace,    \* enhance: the stages executed so far, in order
    a_in,       \* adaptive median: the raster as the caller passed it
    a_img,      \* adaptive median: the raster, shared and written in place
    a_args,     \* adaptive median: [max_window_size, block_h, workers]
    a_par,      \* adaptive median: [max_r, block_h] after parameter handling
    a_pc,       \* adaptive median: "call", "parallel" or "done"
    a_blk,      \* adaptive median: per row-block [pc, yy, y, src, hist]
    a_err,      \* adaptive median: the error reported to the caller
    g_low,      \* adaptive Gaussian: img after the low-sigma blur, before the blend
    g_high,     \* adaptive Gaussian: the high-sigma blur
    g_img,      \* adaptive Gaussian: img, shared and written in place by the blend
    g_args,     \* adaptive Gaussian: [edge_thresh, block_h, workers]
    g_pc,       \* adaptive Gaussian: "blend", "parallel" or "done"
    g_blk,      \* adaptive Gaussian: per row-block [pc, yy, y, lowbuf]
    b_img,      \* binarization: the raster the binarizers mutate in place
    b_prev,     \* binarization: the raster as it was before the last call
    b_op,       \* binarization: the last call, [name, threw, defaults]
    c_first,    \* contrast: the raster as the caller first passed it
    c_prev,     \* contrast: the raster as it was before the last call
    c_img,      \* contrast: the raster contrast_linear_stretch mutates in place
    c_calls,    \* contrast: the number of calls made so far
    p_in,       \* colour pass: the colour raster as the caller passed it
    p_color,    \* colour pass: color_image, mutated in place
    p_mask,     \* colour pass: bin_image
    p_pc,       \* colour pass: "call", "returned" or "threw"
    o_img,      \* Otsu threshold: the raster g
    o_t,        \* Otsu threshold: the value returned
    o_pc,       \* Otsu threshold: "call" or "returned"
    n_img,      \* Bataineh counting: input_image
    n_cut,      \* Bataineh counting: [nan, lo, hi], the class bounds T_con -/+ offset
    n_half,     \* Bataineh counting: <<pw_x_half, pw_y_half>>
    n_next,     \* Bataineh counting: the offset of the next pixel of the second pass
    n_last,     \* Bataineh counting: [x, y, n_w_black, n_w_red] of the last pixel
    d_in,       \* deskew: [inW, inH, box], the raster's size and its foreground's bounding box
    d_search,   \* deskew: [base_score, best_score, best_angle] when the search ran, else <<>>
    d_out,      \* deskew: [rotated, angle], the call of rotate made on input_image
    d_pc,       \* deskew: "call" or "returned"
    l_in,       \* luma: the raster as the caller passed it
    l_img,      \* luma: input_image, replaced by the conversion
    l_pc,       \* luma: "call" or "returned"
    k_args,     \* CLI: [trials, warmup, time_limit_min] as parsed
    k_pc,       \* CLI: "load", "warmup", "trial", "running", "check", "write" or "exited"
    k_i,        \* CLI: the loop counter i of the warm-up or the trial loop
    k_elapsed,  \* CLI: milliseconds on the clock since bench_start_time
    k_actual,   \* CLI: actual_trials
    k_result,   \* CLI: the trial whose output result holds, 0 if none
    k_log,      \* CLI: what has happened so far, [ev, run, at] in order
    k_file,     \* CLI: the trial whose output the file holds, 0 if no file, -1 if a broken one
    k_out,      \* CLI: [exit, reported], the exit code and the trial count printed
    q_in,       \* sliding window: [kind, src, len, r] of the call
    q_i,        \* sliding window: the loop index i, the number of iterations done
    q_st,       \* sliding window: [q, head, tail, dst]
    h_in,       \* AMF window: [img, max_r], the raster and the largest radius
    h_src,      \* AMF window: the block's buffer, halo rows included
    h_px,       \* AMF window: [x, y, r, outv] of the pixel in hand, r the radius in the histogram
    h_st,       \* AMF window: [hist, touched]
    h_pc,       \* AMF window: "pixel", "expand", "reset", "next" or "done"
    s_in,       \* angle search: [scores, workers], the score of each grid index and the team size
    s_thr,      \* angle search: per thread [pc, a, s], its position and its local best
    s_best,     \* angle search: [a, s], best_angle (as a grid index) and best_score
    s_pc,       \* angle search: "parallel" or "returned"
    v_p,        \* median: the nine samples p0 .. p8
    v_net,      \* median: what median9 returned, NoMedian before the call
    v_hist      \* median: zmed of hist_min_med_max, NoMedian before the call

morphVars == <<m_img, m_prev, m_first, m_op>>
intVars == <<i_src, i_tab, i_S, i_S2, i_pc, i_res>>
enhVars == <<e_pc, e_opts, e_spectrum, e_trace>>
amfVars == <<a_in, a_img, a_args, a_par, a_pc, a_blk, a_err>>
agVars == <<g_low, g_high, g_img, g_args, g_pc, g_blk>>
binVars == <<b_img, b_prev, b_op>>
ctVars == <<c_first, c_prev, c_img, c_calls>>
cpVars == <<p_in, p_color, p_mask, p_pc>>
otVars == <<o_img, o_t, o_pc>>
bcVars == <<n_img, n_cut, n_half, n_next, n_last>>
dkVars == <<d_in, d_search, d_out, d_pc>>
luVars == <<l_in, l_img, l_pc>>
cliVars == <<k_args, k_pc, k_i, k_elapsed, k_actual, k_result, k_log, k_file, k_out>>
dqVars == <<q_in, q_i, q_st>>
hxVars == <<h_in, h_src, h_px, h_st, h_pc>>
srVars == <<s_in, s_thr, s_best, s_pc>>
mdVars == <<v_p, v_net, v_hist>>
vars == <<morphVars, intVars, enhVars, amfVars, agVars, binVars, ctVars, cpVars, otVars, bcVars, dkVars, luVars, cliVars, dqVars, hxVars, srVars, mdVars>>

(***************************************************************************)
(* Generic helpers                                                         *)
(***************************************************************************)
\* The element of a one-element set; it is used to have a value computed once
\* before it is used several times.
The(S) == CHOOSE v \in S : TRUE

Min2(a, b) == IF a < b THEN a ELSE b
Max2(a, b) == IF a > b THEN a ELSE b
SetMin(S) == CHOOSE m \in S : \A e \in S : m <= e
SetMax(S) == CHOOSE m \in S : \A e \in S : m >= e

\* A single-channel raster of width w and height h from a plane p[y][x].
MkImg(w, h, p) == [w |-> w, h |-> h, s |-> 1, px |-> [c \in {0} |-> p]]

\* Sample (x, y) of channel 0.
Px(img, x, y) == img.px[0][y][x]

\* All planes of width w, height h with samples drawn from the set L.
Planes(w, h, L) == [0 .. h - 1 -> [0 .. w - 1 -> L]]

IsBinary(img) ==
    \A c \in DOMAIN img.px : \A y \in 0 .. img.h - 1 : \A x \in 0 .. img.w - 1 :
        img.px[c][y][x] \in {0, 255}

SameShape(a, b) == a.w = b.w /\ a.h = b.h /\ a.s = b.s

\* f itself, as an explicitly enumerated function (f @@ <<>> = f): the model
\* checker then computes each element once instead of at every application.
Eval(f) == f @@ <<>>

NoImg == [w |-> 0, h |-> 0, s |-> 0, px |-> <<>>]
NoOp == [name |-> "none", k |-> 0, t |-> 0, diag |-> FALSE, threw |-> FALSE]
NoVec == [size |-> 0, mem |-> <<>>]
NoRes == [kind |-> "none", x1 |-> 0, y1 |-> 0, x2 |-> 0, y2 |-> 0, value |-> 0]

\* The variables of a family that is not running.
MorphIdle == m_img = NoImg /\ m_prev = NoImg /\ m_first = FALSE /\ m_op = NoOp
IntIdle ==
    /\ i_src = NoImg /\ i_tab = <<>> /\ i_S = NoVec /\ i_S2 = NoVec
    /\ i_pc = "idle" /\ i_res = NoRes

EnhIdle == e_pc = "idle" /\ e_opts = <<>> /\ e_spectrum = 0 /\ e_trace = <<>>

AmfIdle ==
    /\ a_in = NoImg /\ a_img = NoImg /\ a_args = <<>> /\ a_par = <<>>
    /\ a_pc = "idle" /\ a_blk = <<>> /\ a_err = "none"

AgIdle ==
    /\ g_low = NoImg /\ g_high = NoImg /\ g_img = NoImg /\ g_args = <<>>
    /\ g_pc = "idle" /\ g_blk = <<>>

NoBinOp == [name |-> "none", threw |-> FALSE, defaults |-> FALSE]
BinIdle == b_img = NoImg /\ b_prev = NoImg /\ b_op = NoBinOp

CtIdle ==
    c_first = NoImg /\ c_prev = NoImg /\ c_img = NoImg /\ c_calls = 0

CpIdle ==
    p_in = NoImg /\ p_color = NoImg /\ p_mask = NoImg /\ p_pc = "idle"

OtIdle ==
    o_img = NoImg /\ o_t = 0 /\ o_pc = "idle"

BcIdle ==
    n_img = NoImg /\ n_cut = <<>> /\ n_half = <<>> /\ n_next = 0 /\ n_last = <<>>

DkIdle ==
    d_in = <<>> /\ d_search = <<>> /\ d_out = <<>> /\ d_pc = "idle"

LuIdle ==
    l_in = NoImg /\ l_img = NoImg /\ l_pc = "idle"

CliIdle ==
    k_args = <<>> /\ k_pc = "idle" /\ k_i = 0 /\ k_elapsed = 0 /\ k_actual = 0
    /\ k_result = 0 /\ k_log = <<>> /\ k_file = 0 /\ k_out = <<>>

DqIdle ==
    q_in = <<>> /\ q_i = 0 /\ q_st = <<>>

HxIdle ==
    h_in = <<>> /\ h_src = <<>> /\ h_px = <<>> /\ h_st = <<>> /\ h_pc = "idle"

SrIdle ==
    s_in = <<>> /\ s_thr = <<>> /\ s_best = <<>> /\ s_pc = "idle"

MdIdle ==
    v_p = <<>> /\ v_net = -1 /\ v_hist = -1

\* What the actions of each family leave alone.
morphOthers == <<intVars, enhVars, amfVars, agVars, binVars, ctVars, cpVars, otVars, bcVars, dkVars, luVars, cliVars, dqVars, hxVars, srVars, mdVars>>
intOthers == <<morphVars, enhVars, amfVars, agVars, binVars, ctVars, cpVars, otVars, bcVars, dkVars, luVars, cliVars, dqVars, hxVars, srVars, mdVars>>
enhOthers == <<morphVars, intVars, amfVars, agVars, binVars, ctVars, cpVars, otVars, bcVars, dkVars, luVars, cliVars, dqVars, hxVars, srVars, mdVars>>
amfOthers == <<morphVars, intVars, enhVars, agVars, binVars, ctVars, cpVars, otVars, bcVars, dkVars, luVars, cliVars, dqVars, hxVars, srVars, mdVars>>
agOthers == <<morphVars, intVars, enhVars, amfVars, binVars, ctVars, cpVars, otVars, bcVars, dkVars, luVars, cliVars, dqVars, hxVars, srVars, mdVars>>
binOthers == <<morphVars, intVars, enhVars, amfVars, agVars, ctVars, cpVars, otVars, bcVars, dkVars, luVars, cliVars, dqVars, hxVars, srVars, mdVars>>
ctOthers == <<morphVars, intVars, enhVars, amfVars, agVars, binVars, cpVars, otVars, bcVars, dkVars, luVars, cliVars, dqVars, hxVars, srVars, mdVars>>
cpOthers == <<morphVars, intVars, enhVars, amfVars, agVars, binVars, ctVars, otVars, bcVars, dkVars, luVars, cliVars, dqVars, hxVars, srVars, mdVars>>
otOthers == <<morphVars, intVars, enhVars, amfVars, agVars, binVars, ctVars, cpVars, bcVars, dkVars, luVars, cliVars, dqVars, hxVars, srVars, mdVars>>
bcOthers == <<morphVars, intVars, enhVars, amfVars, agVars, binVars, ctVars, cpVars, otVars, dkVars, luVars, cliVars, dqVars, hxVars, srVars, mdVars>>
dkOthers == <<morphVars, intVars, enhVars, amfVars, agVars, binVars, ctVars, cpVars, otVars, bcVars, luVars, cliVars, dqVars, hxVars, srVars, mdVars>>
luOthers == <<morphVars, intVars, enhVars, amfVars, agVars, binVars, ctVars, cpVars, otVars, bcVars, dkVars, cliVars, dqVars, hxVars, srVars, mdVars>>
cliOthers == <<morphVars, intVars, enhVars, amfVars, agVars, binVars, ctVars, cpVars, otVars, bcVars, dkVars, luVars, dqVars, hxVars, srVars, mdVars>>
dqOthers == <<morphVars, intVars, enhVars, amfVars, agVars, binVars, ctVars, cpVars, otVars, bcVars, dkVars, luVars, cliVars, hxVars, srVars, mdVars>>
hxOthers == <<morphVars, intVars, enhVars, amfVars, agVars, binVars, ctVars, cpVars, otVars, bcVars, dkVars, luVars, cliVars, dqVars, srVars, mdVars>>
srOthers == <<morphVars, intVars, enhVars, amfVars, agVars, binVars, ctVars, cpVars, otVars, bcVars, dkVars, luVars, cliVars, dqVars, hxVars, mdVars>>
mdOthers == <<morphVars, intVars, enhVars, amfVars, agVars, binVars, ctVars, cpVars, otVars, bcVars, dkVars, luVars, cliVars, dqVars, hxVars, srVars>>

(***************************************************************************)
(* Morphology (src/src/lib/morphology/morphology.cpp)                      *)
(***************************************************************************)

\* while (head < tail && src[q[tail - 1]] <= val) tail--;
RECURSIVE PopBackMax(_, _, _, _, _)
PopBackMax(q, head, tail, src, val) ==
    IF head < tail /\ src[q[tail - 1]] <= val
    THEN PopBackMax(q, head, tail - 1, src, val)
    ELSE tail

\* while (head < tail && src[q[tail - 1]] >= val) tail--;
RECURSIVE PopBackMin(_, _, _, _, _)
PopBackMin(q, head, tail, src, val) ==
    IF head < tail /\ src[q[tail - 1]] >= val
    THEN PopBackMin(q, head, tail - 1, src, val)
    ELSE tail

\* A plausible slip: the front expires one iteration late.
MaxStepLateExpiry(src, len, r, i, st) ==
    LET head1 == IF st.head < st.tail /\ st.q[st.head] < i - (2 * r + 1)
                 THEN st.head + 1 ELSE st.head
        tail1 == IF i < len THEN PopBackMax(st.q, head1, st.tail, src, src[i])
                 ELSE st.tail
        q1    == IF i < len THEN [st.q EXCEPT ![tail1] = i] ELSE st.q
        tail2 == IF i < len THEN tail1 + 1 ELSE tail1
        center == i - r
        dst1  == IF center >= 0 /\ center < len /\ head1 < tail2
                 THEN [st.dst EXCEPT ![center] = src[q1[head1]]]
                 ELSE st.dst
    IN  [q |-> q1, head |-> head1, tail |-> tail2, dst |-> dst1]

\* One iteration (index i) of the loop of sliding_window_max: expire the
\* front, push i, write the centre.  st = [q, head, tail, dst].
MaxStep(src, len, r, i, st) ==
    LET head1 == IF st.head < st.tail /\ st.q[st.head] <= i - (2 * r + 1)
                 THEN st.head + 1 ELSE st.head
        tail1 == IF i < len THEN PopBackMax(st.q, head1, st.tail, src, src[i])
                 ELSE st.tail
        q1    == IF i < len THEN [st.q EXCEPT ![tail1] = i] ELSE st.q
        tail2 == IF i < len THEN tail1 + 1 ELSE tail1
        center == i - r
        dst1  == IF center >= 0 /\ center < len /\ head1 < tail2
                 THEN [st.dst EXCEPT ![center] = src[q1[head1]]]
                 ELSE st.dst
    IN  [q |-> q1, head |-> head1, tail |-> tail2, dst |-> dst1]

\* One iteration (index i) of the loop of sliding_window_min.
MinStep(src, len, r, i, st) ==
    LET head1 == IF st.head < st.tail /\ st.q[st.head] <= i - (2 * r + 1)
                 THEN st.head + 1 ELSE st.head
        tail1 == IF i < len THEN PopBackMin(st.q, head1, st.tail, src, src[i])
                 ELSE st.tail
        q1    == IF i < len THEN [st.q EXCEPT ![tail1] = i] ELSE st.q
        tail2 == IF i < len THEN tail1 + 1 ELSE tail1
        center == i - r
        dst1  == IF center >= 0 /\ center < len /\ head1 < tail2
                 THEN [st.dst EXCEPT ![center] = src[q1[head1]]]
                 ELSE st.dst
    IN  [q |-> q1, head |-> head1, tail |-> tail2, dst |-> dst1]

\* std::vector<int> q(len); int head = 0; int tail = 0;
DequeInit(dst, len) ==
    [q |-> Eval([j \in 0 .. len - 1 |-> 0]), head |-> 0, tail |-> 0, dst |-> Eval(dst)]

\* The state of sliding_window_max before iteration i.
RECURSIVE MaxRun(_, _, _, _, _)
MaxRun(src, dst, len, r, i) ==
    IF i = 0 THEN DequeInit(dst, len)
    ELSE MaxStep(src, len, r, i - 1, MaxRun(src, dst, len, r, i - 1))

\* The state of sliding_window_min before iteration i.
RECURSIVE MinRun(_, _, _, _, _)
MinRun(src, dst, len, r, i) ==
    IF i = 0 THEN DequeInit(dst, len)
    ELSE MinStep(src, len, r, i - 1, MinRun(src, dst, len, r, i - 1))

\* sliding_window_max(src, dst, len, stride, r): the contents of dst after
\* the loop for (i = 0; i < len + r; ++i).  src and dst are the strided rows or
\* columns as functions on 0 .. len-1.
sliding_window_max(src, dst, len, r) == MaxRun(src, dst, len, r, len + r).dst

\* A plausible slip: the loop stops at len, so the last r centres are never
\* written.
sliding_window_min_short(src, dst, len, r) == MinRun(src, dst, len, r, len).dst

\* sliding_window_min(src, dst, len, stride, r): the contents of dst afterwards.
sliding_window_min(src, dst, len, r) == MinRun(src, dst, len, r, len + r).dst

\* A plausible slip: the radius one too small.
KernelRadiusShort(kernel_size) == kernel_size \div 2 - 1

\* int r = kernel_size / 2;
KernelRadius(kernel_size) == kernel_size \div 2

\* Column x of plane p as a function of y (the stride-w walk of the source).
Column(p, h, x) == Eval([y \in 0 .. h - 1 |-> p[y][x]])

\* The two passes of dilation_square on plane p: pass 1 reads the image rows
\* and writes temp (a copy of the image); pass 2 reads temp's columns and
\* writes the image's columns.
DilatePasses(p, w, h, r) ==
    LET temp == Eval([y \in 0 .. h - 1 |-> sliding_window_max(p[y], p[y], w, r)])
        cols == Eval([x \in 0 .. w - 1 |->
                    sliding_window_max(Column(temp, h, x), Column(p, h, x), h, r)])
    IN  [y \in 0 .. h - 1 |-> [x \in 0 .. w - 1 |-> cols[x][y]]]

\* The two passes of erosion_square on plane p.
ErodePasses(p, w, h, r) ==
    LET temp == Eval([y \in 0 .. h - 1 |-> sliding_window_min(p[y], p[y], w, r)])
        cols == Eval([x \in 0 .. w - 1 |->
                    sliding_window_min(Column(temp, h, x), Column(p, h, x), h, r)])
    IN  [y \in 0 .. h - 1 |-> [x \in 0 .. w - 1 |-> cols[x][y]]]

\* dilation_square(input_image, kernel_size): [img, threw].
dilation_square(img, kernel_size) ==
    IF img.s # 1 THEN [img |-> img, threw |-> TRUE]
    ELSE IF kernel_size <= 1 THEN [img |-> img, threw |-> FALSE]
    ELSE [img |-> MkImg(img.w, img.h,
                        DilatePasses(img.px[0], img.w, img.h, KernelRadius(kernel_size))),
          threw |-> FALSE]

\* erosion_square(input_image, kernel_size): [img, threw].
erosion_square(img, kernel_size) ==
    IF img.s # 1 THEN [img |-> img, threw |-> TRUE]
    ELSE IF kernel_size <= 1 THEN [img |-> img, threw |-> FALSE]
    ELSE [img |-> MkImg(img.w, img.h,
                        ErodePasses(img.px[0], img.w, img.h, KernelRadius(kernel_size))),
          threw |-> FALSE]

\* Pixel positions <<x, y>> of a w x h plane, and the offset y*w + x of each.
Pixels(w, h) == (0 .. w - 1) \X (0 .. h - 1)
Offset(w, p) == p[2] * w + p[1]

\* Whether q is a neighbour of p: 4-connected, or 8-connected when diag
\* (is_high_connectivity) is set.
Adjacent(diag, p, q) ==
    /\ q # p
    /\ q[1] - p[1] \in {-1, 0, 1}
    /\ q[2] - p[2] \in {-1, 0, 1}
    /\ (diag \/ q[1] = p[1] \/ q[2] = p[2])

\* The connected region of equal samples that contains the pixels of S.
RECURSIVE Region(_, _, _, _, _)
Region(p, w, h, diag, S) ==
    LET grown == S \cup {q \in Pixels(w, h) \ S :
                            \E a \in S : Adjacent(diag, a, q)
                                         /\ p[q[2]][q[1]] = p[a[2]][a[1]]}
    IN  IF grown = S THEN S ELSE Region(p, w, h, diag, grown)

\* CImg<T>::get_label(is_high_connectivity) on plane p: every pixel, whatever
\* its value, is labelled with the rank of its region, regions being numbered
\* from 0 in the order of their first pixel in raster order.  The region that
\* holds pixel (0,0) is therefore label 0.
get_label(p, w, h, diag) ==
    LET root == Eval([a \in Pixels(w, h) |->
                    SetMin({Offset(w, q) : q \in Region(p, w, h, diag, {a})})])
        roots == {root[a] : a \in Pixels(w, h)}
    IN  Eval([a \in Pixels(w, h) |-> Cardinality({r \in roots : r < root[a]})])

\* input_image[i] = (input_image[i] == 0) ? 255 : 0;
InvertIn(v) == IF v = 0 THEN 255 ELSE 0

\* A plausible slip: the inversion back written as a flag, not as a sample.
InvertBackFlag(v) == IF v = 255 THEN 0 ELSE 1

\* input_image[i] = (input_image[i] == 255) ? 0 : 255;
InvertBack(v) == IF v = 255 THEN 0 ELSE 255

\* A plausible slip: the early return for threshold 0 is missing.
despeckle_ccl_unguarded(img, threshold, diag) ==
      LET w == img.w
          h == img.h
          inv == Eval([y \in 0 .. h - 1 |->
                          Eval([x \in 0 .. w - 1 |-> InvertIn(img.px[0][y][x])])])
          labels == get_label(inv, w, h, diag)
          max_label == SetMax({labels[a] : a \in Pixels(w, h)})
          sizes == Eval([l \in 0 .. max_label |->
                       Cardinality({a \in Pixels(w, h) : labels[a] = l})])
          kept == [y \in 0 .. h - 1 |-> [x \in 0 .. w - 1 |->
                     IF labels[<<x, y>>] > 0 /\ sizes[labels[<<x, y>>]] < threshold
                     THEN 0 ELSE inv[y][x]]]
      IN  IF max_label = 0
          THEN MkImg(w, h, [y \in 0 .. h - 1 |-> [x \in 0 .. w - 1 |-> 255]])
          ELSE MkImg(w, h, [y \in 0 .. h - 1 |-> [x \in 0 .. w - 1 |->
                                InvertBack(kept[y][x])]])

\* despeckle_ccl(input_image, threshold, diagonal_connections): the raster
\* afterwards.
despeckle_ccl(img, threshold, diag) ==
    IF threshold <= 0 THEN img
    ELSE
      LET w == img.w
          h == img.h
          inv == Eval([y \in 0 .. h - 1 |->
                          Eval([x \in 0 .. w - 1 |-> InvertIn(img.px[0][y][x])])])
          labels == get_label(inv, w, h, diag)
          max_label == SetMax({labels[a] : a \in Pixels(w, h)})
          sizes == Eval([l \in 0 .. max_label |->
                       Cardinality({a \in Pixels(w, h) : labels[a] = l})])
          kept == [y \in 0 .. h - 1 |-> [x \in 0 .. w - 1 |->
                     IF labels[<<x, y>>] > 0 /\ sizes[labels[<<x, y>>]] < threshold
                     THEN 0 ELSE inv[y][x]]]
      IN  IF max_label = 0
          THEN MkImg(w, h, [y \in 0 .. h - 1 |-> [x \in 0 .. w - 1 |-> 255]])
          ELSE MkImg(w, h, [y \in 0 .. h - 1 |-> [x \in 0 .. w - 1 |->
                                InvertBack(kept[y][x])]])

(***************************************************************************)
(* SpecMorph: any sequence of dilation / erosion / despeckle calls on one  *)
(* single-channel raster.                                                  *)
(***************************************************************************)
MaxPixels == 6
MaxKernel == 5
MaxThreshold == 3
Levels == {0, 128, 255}

\* The shapes <<w, h>> of the rasters tried: every one of at most MaxPixels pixels.
Shapes == {d \in (1 .. MaxPixels) \X (1 .. MaxPixels) : d[1] * d[2] <= MaxPixels}

\* Every single-channel raster of a shape of Shapes with samples in L.
Rasters(L) == UNION {{MkImg(d[1], d[2], p) : p \in Planes(d[1], d[2], L)} : d \in Shapes}

MorphInit ==
    /\ m_img \in Rasters(Levels)
    /\ m_prev = m_img
    /\ m_first = IsBinary(m_img)
    /\ m_op = NoOp
    /\ IntIdle /\ EnhIdle /\ AmfIdle /\ AgIdle /\ BinIdle /\ CtIdle /\ CpIdle /\ OtIdle /\ BcIdle /\ DkIdle /\ LuIdle /\ CliIdle /\ DqIdle /\ HxIdle /\ SrIdle /\ MdIdle

Dilate ==
    /\ m_op = NoOp
    /\ \E k \in 0 .. MaxKernel :
        LET res == dilation_square(m_img, k) IN
        /\ m_prev' = m_img
        /\ m_img' = res.img
        /\ m_op' = [name |-> "dilate", k |-> k, t |-> 0, diag |-> FALSE,
                    threw |-> res.threw]
        /\ UNCHANGED <<m_first, morphOthers>>

Erode ==
    /\ m_op = NoOp
    /\ \E k \in 0 .. MaxKernel :
        LET res == erosion_square(m_img, k) IN
        /\ m_prev' = m_img
        /\ m_img' = res.img
        /\ m_op' = [name |-> "erode", k |-> k, t |-> 0, diag |-> FALSE,
                    threw |-> res.threw]
        /\ UNCHANGED <<m_first, morphOthers>>

Despeckle ==
    /\ m_op = NoOp
    /\ \E t \in 0 .. MaxThreshold, diag \in BOOLEAN :
        /\ m_prev' = m_img
        /\ m_img' = despeckle_ccl(m_img, t, diag)
        /\ m_op' = [name |-> "despeckle", k |-> 0, t |-> t, diag |-> diag,
                    threw |-> FALSE]
        /\ UNCHANGED <<m_first, morphOthers>>

\* The call has returned: its result is the input of whatever is called next.
MorphReturn ==
    /\ m_op # NoOp
    /\ m_op' = NoOp
    /\ m_prev' = m_img
    /\ UNCHANGED <<m_img, m_first, morphOthers>>

MorphNext == Dilate \/ Erode \/ Despeckle \/ MorphReturn

SpecMorph == MorphInit /\ [][MorphNext]_vars

(***************************************************************************)
(* Claims about morphology, checked under SpecMorph                        *)
(***************************************************************************)

\* The samples of channel 0 over the square of radius r around (x, y),
\* clipped to the raster.
WindowSamples(img, x, y, r) ==
    {Px(img, i, j) : i \in Max2(0, x - r) .. Min2(img.w - 1, x + r),
                     j \in Max2(0, y - r) .. Min2(img.h - 1, y + r)}

\* The 0-pixels 4- or 8-connected to pixel a through 0-pixels.
ZeroComponent(img, diag, a) == Region(img.px[0], img.w, img.h, diag, {a})

\* C2: a raster that starts binary (every sample 0 or 255) is binary after
\* every sequence of dilation_square, erosion_square and despeckle_ccl calls,
\* whatever the kernel sizes, thresholds and connectivity.
C2_BinaryPreserved == m_first => IsBinary(m_img)

C2_Witness ==
    /\ m_first
    /\ m_op.name = "despeckle"
    /\ m_op.t >= 2
    /\ m_img # m_prev
    /\ \E x \in 0 .. m_img.w - 1, y \in 0 .. m_img.h - 1 : Px(m_img, x, y) = 0

\* C7: for a binary raster and a threshold t >= 1, despeckle outputs 0 at a
\* pixel exactly when the input pixel is 0 and its connected component of
\* 0-pixels has at least t pixels; every other output pixel is 255.
C7_DespeckleBySize ==
    (m_op.name = "despeckle" /\ m_op.t >= 1 /\ IsBinary(m_prev)) =>
        /\ SameShape(m_img, m_prev)
        /\ \A a \in Pixels(m_prev.w, m_prev.h) :
              Px(m_img, a[1], a[2]) =
                  IF /\ Px(m_prev, a[1], a[2]) = 0
                     /\ Cardinality(ZeroComponent(m_prev, m_op.diag, a)) >= m_op.t
                  THEN 0 ELSE 255

\* C8: for an odd kernel size k = 2r+1 >= 3, dilation_square sets every pixel
\* to the maximum of the input over the (2r+1) x (2r+1) square around it,
\* clipped to the raster.
C8_DilationIsWindowMax ==
    (m_op.name = "dilate" /\ m_op.k >= 3 /\ m_op.k % 2 = 1) =>
        /\ ~m_op.threw
        /\ SameShape(m_img, m_prev)
        /\ \A a \in Pixels(m_prev.w, m_prev.h) :
              Px(m_img, a[1], a[2]) =
                  SetMax(WindowSamples(m_prev, a[1], a[2], (m_op.k - 1) \div 2))

\* A single 255 pixel in the middle of the top row of a black 3 x 2 raster,
\* dilated with k = 3, has become the whole 3 x 2 block.
C8_Witness ==
    /\ m_op.name = "dilate"
    /\ m_op.k = 3
    /\ m_prev.w = 3 /\ m_prev.h = 2
    /\ \A a \in Pixels(3, 2) :
          Px(m_prev, a[1], a[2]) = (IF a = <<1, 0>> THEN 255 ELSE 0)
    /\ \A a \in Pixels(3, 2) : Px(m_img, a[1], a[2]) = 255

\* C9: for an odd kernel size k = 2r+1 >= 3, erosion_square sets every pixel
\* to the minimum of the input over the (2r+1) x (2r+1) square around it,
\* clipped to the raster.
C9_ErosionIsWindowMin ==
    (m_op.name = "erode" /\ m_op.k >= 3 /\ m_op.k % 2 = 1) =>
        /\ ~m_op.threw
        /\ SameShape(m_img, m_prev)
        /\ \A a \in Pixels(m_prev.w, m_prev.h) :
              Px(m_img, a[1], a[2]) =
                  SetMin(WindowSamples(m_prev, a[1], a[2], (m_op.k - 1) \div 2))

\* An isolated 255 pixel on a black 3 x 2 raster, eroded with k = 3, is gone.
C9_Witness ==
    /\ m_op.name = "erode"
    /\ m_op.k = 3
    /\ m_prev.w = 3 /\ m_prev.h = 2
    /\ \A a \in Pixels(3, 2) :
          Px(m_prev, a[1], a[2]) = (IF a = <<1, 0>> THEN 255 ELSE 0)
    /\ \A a \in Pixels(3, 2) : Px(m_img, a[1], a[2]) = 0

\* C29: for a binary raster B, every threshold t and either connectivity,
\* despeckle applied to despeckle(B, t) gives despeckle(B, t) again, and
\* despeckle with threshold 0 returns B unchanged.
C29_DespeckleIdempotent ==
    (m_op.name = "despeckle" /\ IsBinary(m_prev)) =>
        /\ despeckle_ccl(m_img, m_op.t, m_op.diag) = m_img
        /\ m_op.t = 0 => m_img = m_prev

\* despeckle with threshold 3 and diagonal connections has removed a speck
\* from a binary raster and left a larger component in place.
C29_Witness ==
    /\ m_op.name = "despeckle" /\ m_op.t = 3 /\ m_op.diag
    /\ IsBinary(m_prev)
    /\ m_img # m_prev
    /\ Cardinality({a \in Pixels(m_img.w, m_img.h) : Px(m_img, a[1], a[2]) = 0}) >= 3

(***************************************************************************)
(* Integral images (src/src/lib/core/integral_image.cpp, integral_image.h) *)
(***************************************************************************)

\* The sum of row[0 .. x] (row_sum of the source after column x).
RECURSIVE RowPrefix(_, _)
RowPrefix(row, x) == IF x < 0 THEN 0 ELSE row[x] + RowPrefix(row, x - 1)

\* Rows 0 .. y of the table of calculate_integral_image: the first row is the
\* running sum of the source row, each later row is its running sum plus the
\* table row above.
RECURSIVE IntegralRows(_, _, _)
IntegralRows(p, w, y) ==
    IF y = 0
    THEN (0 :> Eval([x \in 0 .. w - 1 |-> RowPrefix(p[0], x)]))
    ELSE LET above == IntegralRows(p, w, y - 1)
         IN  above @@ (y :> Eval([x \in 0 .. w - 1 |->
                                     RowPrefix(p[y], x) + above[y - 1][x]]))

\* calculate_integral_image(src): the table, T[y][x].
calculate_integral_image(img) == IntegralRows(img.px[0], img.w, img.h - 1)

\* const double A = (x1 > 0 && y1 > 0) ? integral_img(x1 - 1, y1 - 1, z, c) : 0.0;
CornerA(T, x1, y1) == IF x1 > 0 /\ y1 > 0 THEN T[y1 - 1][x1 - 1] ELSE 0

\* get_area_sum(integral_img, x1, y1, z, c, x2, y2)
get_area_sum(T, x1, y1, x2, y2) ==
    LET D == T[y2][x2]
        B == IF x1 > 0 THEN T[y2][x1 - 1] ELSE 0
        C == IF y1 > 0 THEN T[y1 - 1][x2] ELSE 0
    IN  D - B - C + CornerA(T, x1, y1)

\* The squared samples of a plane (val * val).
Squares(p, w, h) == Eval([y \in 0 .. h - 1 |-> Eval([x \in 0 .. w - 1 |-> p[y][x] * p[y][x]])])

\* Pass 2 of compute_fused_integrals at column x, row y of the padded table:
\* S[curr] += S[prev], from row 1 downwards.  row1 is the vector after pass 1.
RECURSIVE ColumnAccumulate(_, _, _, _)
ColumnAccumulate(row1, stride, x, y) ==
    IF y = 0 THEN row1[x]
    ELSE row1[y * stride + x] + ColumnAccumulate(row1, stride, x, y - 1)

\* The memory of one vector after both passes.  zeroed is the memory after the
\* resize / zero-init step; vals is the plane that is accumulated.
FusedPasses(zeroed, vals, w, h) ==
    LET stride == w + 1
        row1 == Eval([i \in DOMAIN zeroed |->
                    IF i < stride * (h + 1) /\ (i \div stride) >= 1 /\ (i % stride) >= 1
                    THEN RowPrefix(vals[(i \div stride) - 1], (i % stride) - 1)
                    ELSE zeroed[i]])
    IN  Eval([i \in DOMAIN zeroed |->
            IF i < stride * (h + 1) /\ (i \div stride) >= 1 /\ (i % stride) >= 1
            THEN ColumnAccumulate(row1, stride, i % stride, (i \div stride))
            ELSE row1[i]])

\* What a cell past the end of a vector holds before the call: memory the
\* vector does not own, a (an even offset) or b (an odd one).
RawCell(raw, i) == IF i % 2 = 0 THEN raw[1] ELSE raw[2]

\* compute_fused_integrals(src, z, S, S2): [S, S2, oob].  Only S.size() is
\* compared with stride * (h + 1); when it matches, S2 keeps its size and
\* only its own entries are zeroed, while both passes write all
\* stride * (h + 1) offsets of both vectors.  mem covers every offset the
\* call touches; oob tells whether some of them lie past the end of S2.
compute_fused_integrals(img, S, S2, raw) ==
    LET w == img.w
        h == img.h
        n == (w + 1) * (h + 1)
        resized == S.size # n
        size2 == IF resized THEN n ELSE S2.size
        zeroS == [i \in 0 .. n - 1 |-> 0]
        zeroS2 == [i \in 0 .. Max2(size2, n) - 1 |->
                     IF i < size2 THEN 0 ELSE RawCell(raw, i)]
    IN  [S   |-> [size |-> n, mem |-> FusedPasses(zeroS, img.px[0], w, h)],
         S2  |-> [size |-> size2,
                  mem |-> FusedPasses(zeroS2, Squares(img.px[0], w, h), w, h)],
         oob |-> size2 < n]

\* get_sum_padded(S, w, x1, y1, x2, y2)
get_sum_padded(mem, w, x1, y1, x2, y2) ==
    LET stride == w + 1
        idx_D == (y2 + 1) * stride + (x2 + 1)
        idx_B == (y2 + 1) * stride + x1
        idx_C == y1 * stride + (x2 + 1)
        idx_A == y1 * stride + x1
    IN  mem[idx_D] - mem[idx_B] - mem[idx_C] + mem[idx_A]

(***************************************************************************)
(* SpecIntegral: one source raster; a caller builds either table and then  *)
(* asks for rectangle sums.                                                *)
(***************************************************************************)
MaxIntPixels == 4
IntLevels == {0, 3, 255}
Stale == 9
RawValues == {0, Stale}

IntShapes == {d \in (1 .. MaxIntPixels) \X (1 .. MaxIntPixels) : d[1] * d[2] <= MaxIntPixels}
IntRasters == UNION {{MkImg(d[1], d[2], p) : p \in Planes(d[1], d[2], IntLevels)} : d \in IntShapes}

\* A vector as the caller hands it in: k entries left over from earlier use.
EntryVec(k) == [size |-> k, mem |-> [i \in 0 .. k - 1 |-> Stale]]

\* The sizes a caller's vector may have on entry, n being the padded size.
EntrySizes(n) == {0, n - 1, n, n + 1}

Rects(w, h) ==
    {r \in (0 .. w - 1) \X (0 .. h - 1) \X (0 .. w - 1) \X (0 .. h - 1) :
        r[1] <= r[3] /\ r[2] <= r[4]}

IntInit ==
    /\ i_src \in IntRasters
    /\ i_tab = <<>>
    /\ \E k \in {0, (i_src.w + 1) * (i_src.h + 1)} : i_S = EntryVec(k)
    /\ \E k \in EntrySizes((i_src.w + 1) * (i_src.h + 1)) : i_S2 = EntryVec(k)
    /\ i_pc = "idle"
    /\ i_res = NoRes
    /\ MorphIdle /\ EnhIdle /\ AmfIdle /\ AgIdle /\ BinIdle /\ CtIdle /\ CpIdle /\ OtIdle /\ BcIdle /\ DkIdle /\ LuIdle /\ CliIdle /\ DqIdle /\ HxIdle /\ SrIdle /\ MdIdle

Integral ==
    /\ i_pc = "idle"
    /\ i_tab' = calculate_integral_image(i_src)
    /\ i_pc' = "tab"
    /\ UNCHANGED <<i_src, i_S, i_S2, i_res, intOthers>>

AreaSum ==
    /\ i_pc = "tab"
    /\ \E r \in Rects(i_src.w, i_src.h) :
        i_res' = [kind |-> "area", x1 |-> r[1], y1 |-> r[2], x2 |-> r[3], y2 |-> r[4],
                  value |-> get_area_sum(i_tab, r[1], r[2], r[3], r[4])]
    /\ UNCHANGED <<i_src, i_tab, i_S, i_S2, i_pc, intOthers>>

\* compute_fused_integrals returns.  When it wrote past the end of S2 the
\* cells past the end hold whatever the writes left there.
Fused ==
    /\ i_pc = "idle"
    /\ \E raw \in RawValues \X RawValues :
        LET res == compute_fused_integrals(i_src, i_S, i_S2, raw) IN
        /\ i_S' = res.S
        /\ i_S2' = res.S2
        /\ i_pc' = "fused"
    /\ UNCHANGED <<i_src, i_tab, i_res, intOthers>>

\* compute_fused_integrals writes past the end of S2 and the process dies.
FusedCrash ==
    /\ i_pc = "idle"
    /\ compute_fused_integrals(i_src, i_S, i_S2, <<0, 0>>).oob
    /\ i_pc' = "crashed"
    /\ UNCHANGED <<i_src, i_tab, i_S, i_S2, i_res, intOthers>>

SumPadded ==
    /\ i_pc = "fused"
    /\ \E r \in Rects(i_src.w, i_src.h), kind \in {"S", "S2"} :
        i_res' = [kind |-> kind, x1 |-> r[1], y1 |-> r[2], x2 |-> r[3], y2 |-> r[4],
                  value |-> get_sum_padded(IF kind = "S" THEN i_S.mem ELSE i_S2.mem,
                                           i_src.w, r[1], r[2], r[3], r[4])]
    /\ UNCHANGED <<i_src, i_tab, i_S, i_S2, i_pc, intOthers>>

IntNext == Integral \/ AreaSum \/ Fused \/ FusedCrash \/ SumPadded

SpecIntegral == IntInit /\ [][IntNext]_vars

(***************************************************************************)
(* Claims about integral images, checked under SpecIntegral                *)
(***************************************************************************)

\* The sum of f over the cells of Cells, one cell at a time.
RECURSIVE SumCells(_, _)
SumCells(f, Cells) ==
    IF Cells = {} THEN 0
    ELSE LET a == CHOOSE a \in Cells : TRUE
         IN  f[a[2]][a[1]] + SumCells(f, Cells \ {a})

NaiveSum(p, x1, y1, x2, y2) == SumCells(p, (x1 .. x2) \X (y1 .. y2))

\* C6: every rectangle sum returned by get_area_sum over the table of
\* calculate_integral_image, and by get_sum_padded over the tables S and S2
\* of compute_fused_integrals, equals the naive sum of the samples (of the
\* squared samples for S2) over the inclusive rectangle.
C6_RectSumsExact ==
    i_res.kind # "none" =>
        i_res.value =
            NaiveSum(IF i_res.kind = "S2"
                     THEN Squares(i_src.px[0], i_src.w, i_src.h) ELSE i_src.px[0],
                     i_res.x1, i_res.y1, i_res.x2, i_res.y2)

\* C27: compute_fused_integrals always returns, and then S and S2 both have
\* exactly (W+1) * (H+1) entries, row 0 and column 0 of both are 0, and no
\* cell outside either vector has been written, whatever the sizes of S and
\* S2 were on entry.
C27_FusedVectorsWellFormed ==
    LET stride == i_src.w + 1
        n == stride * (i_src.h + 1)
    IN  /\ i_pc # "crashed"
        /\ i_pc = "fused" =>
              \A V \in {i_S, i_S2} :
                 /\ V.size = n
                 /\ DOMAIN V.mem = 0 .. n - 1
                 /\ \A i \in 0 .. n - 1 :
                       (i \div stride = 0 \/ i % stride = 0) => V.mem[i] = 0

(***************************************************************************)
(* enhance (src/src/lib/ite.cpp)                                           *)
(***************************************************************************)

\* The channel count to_grayscale_inplace leaves; written as a plausible slip
\* that returns the raster as it came.
GrayscaleKeepsChannels(spectrum) == spectrum

\* to_grayscale_inplace: a single-channel raster is returned as it is, any
\* other is replaced by a new raster of one channel.
GrayscaleChannels(spectrum) == IF spectrum = 1 THEN spectrum ELSE 1

\* e_trace with stage appended.
Executed(trace, stage) == Append(trace, stage)

(***************************************************************************)
(* SpecEnhance: one call of enhance, one action per statement.             *)
(***************************************************************************)
KernelSizes == {1, 3}
DespeckleThresholds == {0, 5}
Spectra == {1, 3, 4}

EnhOptions ==
    [kernel_size : KernelSizes, despeckle_threshold : DespeckleThresholds,
     diagonal_connections : BOOLEAN, do_erosion : BOOLEAN, do_dilation : BOOLEAN,
     do_despeckle : BOOLEAN, do_deskew : BOOLEAN]

\* CImg<uint> l_image = input_image;
EnhInit ==
    /\ e_pc = "to_grayscale"
    /\ e_opts \in EnhOptions
    /\ e_spectrum \in Spectra
    /\ e_trace = <<>>
    /\ MorphIdle /\ IntIdle /\ AmfIdle /\ AgIdle /\ BinIdle /\ CtIdle /\ CpIdle /\ OtIdle /\ BcIdle /\ DkIdle /\ LuIdle /\ CliIdle /\ DqIdle /\ HxIdle /\ SrIdle /\ MdIdle

\* to_grayscale_inplace(l_image);
EnhGrayscale ==
    /\ e_pc = "to_grayscale"
    /\ e_spectrum' = GrayscaleChannels(e_spectrum)
    /\ e_trace' = Executed(e_trace, "luma")
    /\ e_pc' = "deskew"
    /\ UNCHANGED <<e_opts, enhOthers>>

\* if (do_deskew) { deskew_inplace(l_image); }
EnhDeskew ==
    /\ e_pc = "deskew"
    /\ e_trace' = IF e_opts.do_deskew THEN Executed(e_trace, "deskew") ELSE e_trace
    /\ e_pc' = "contrast"
    /\ UNCHANGED <<e_opts, e_spectrum, enhOthers>>

\* contrast_enhancement_inplace(l_image);
EnhContrast ==
    /\ e_pc = "contrast"
    /\ e_trace' = Executed(e_trace, "contrast")
    /\ e_pc' = "binarize"
    /\ UNCHANGED <<e_opts, e_spectrum, enhOthers>>

\* binarize_inplace(l_image); it throws unless the raster has one channel.
EnhBinarize ==
    /\ e_pc = "binarize"
    /\ IF e_spectrum # 1
       THEN e_pc' = "threw" /\ e_trace' = e_trace
       ELSE e_pc' = "despeckle" /\ e_trace' = Executed(e_trace, "binarize")
    /\ UNCHANGED <<e_opts, e_spectrum, enhOthers>>

\* if (do_despeckle) { despeckle_inplace(l_image, despeckle_threshold, diagonal_connections); }
EnhDespeckle ==
    /\ e_pc = "despeckle"
    /\ e_trace' = IF e_opts.do_despeckle THEN Executed(e_trace, "despeckle") ELSE e_trace
    /\ e_pc' = "dilation"
    /\ UNCHANGED <<e_opts, e_spectrum, enhOthers>>

\* if (do_dilation) { dilation_inplace(l_image, kernel_size); }
EnhDilation ==
    /\ e_pc = "dilation"
    /\ e_trace' = IF e_opts.do_dilation THEN Executed(e_trace, "dilation") ELSE e_trace
    /\ e_pc' = "erosion"
    /\ UNCHANGED <<e_opts, e_spectrum, enhOthers>>

\* if (do_erosion) { erosion_inplace(l_image, kernel_size); }
EnhErosion ==
    /\ e_pc = "erosion"
    /\ e_trace' = IF e_opts.do_erosion THEN Executed(e_trace, "erosion") ELSE e_trace
    /\ e_pc' = "return"
    /\ UNCHANGED <<e_opts, e_spectrum, enhOthers>>

\* return l_image;
EnhReturn ==
    /\ e_pc = "return"
    /\ e_pc' = "done"
    /\ UNCHANGED <<e_opts, e_spectrum, e_trace, enhOthers>>

EnhNext ==
    \/ EnhGrayscale \/ EnhDeskew \/ EnhContrast \/ EnhBinarize
    \/ EnhDespeckle \/ EnhDilation \/ EnhErosion \/ EnhReturn

SpecEnhance == EnhInit /\ [][EnhNext]_vars

(***************************************************************************)
(* Claims about enhance, checked under SpecEnhance                         *)
(***************************************************************************)

\* The place of each stage in the order the pipeline is documented to have.
StageOrder ==
    <<"luma", "deskew", "contrast", "gaussian", "median", "adaptive_median",
      "binarize", "despeckle", "dilation", "erosion", "colour_pass">>

Rank(stage) == CHOOSE i \in 1 .. Len(StageOrder) : StageOrder[i] = stage

Times(trace, stage) == Cardinality({i \in 1 .. Len(trace) : trace[i] = stage})

clampi(v, lo, hi) == IF v < lo THEN lo ELSE IF v > hi THEN hi ELSE v

\* pix_sort(a, b) on the samples p[a], p[b] of p (a function on 0 .. 8).
pix_sort(p, a, b) == IF p[a] > p[b] THEN [p EXCEPT ![a] = p[b], ![b] = p[a]] ELSE p

\* The exchanges of median9, in order.
Median9Net ==
    << <<1, 2>>, <<4, 5>>, <<7, 8>>, <<0, 1>>, <<3, 4>>, <<6, 7>>, <<1, 2>>,
       <<4, 5>>, <<7, 8>>, <<0, 3>>, <<5, 8>>, <<4, 7>>, <<3, 6>>, <<1, 4>>,
       <<2, 5>>, <<4, 7>>, <<4, 2>>, <<6, 4>>, <<4, 2>> >>

\* p after the first i exchanges of the network.
RECURSIVE SortNetwork(_, _)
SortNetwork(p, i) ==
    IF i = 0 THEN p
    ELSE pix_sort(SortNetwork(p, i - 1), Median9Net[i][1], Median9Net[i][2])

\* A plausible slip: the mean of the nine samples in place of their median.
median9_mean(p) == (p[0] + p[1] + p[2] + p[3] + p[4] + p[5] + p[6] + p[7] + p[8]) \div 9

\* A plausible slip: the centre sample is returned without the exchanges.
median9_centre(p) == p[4]

\* median9(p0, ..., p8)
median9(p) == SortNetwork(p, Len(Median9Net))[4]

\* std::array<uint16_t, 256> hist{}; touched is the live prefix
\* touched[0 .. ntouched-1].
ZeroHist == [i \in 0 .. 255 |-> 0]

\* hist_add(hist, touched, ntouched, v)
hist_add(st, v) ==
    LET b == v % 256
    IN  [hist |-> [st.hist EXCEPT ![b] = (@ + 1) % 65536],
         touched |-> IF st.hist[b] = 0 THEN Append(st.touched, b) ELSE st.touched]

\* hist_add for samples[lo .. hi], in order (the span is halved to keep the
\* evaluation shallow).
RECURSIVE hist_add_span(_, _, _, _)
hist_add_span(st, samples, lo, hi) ==
    IF lo > hi THEN st
    ELSE IF lo = hi THEN hist_add(st, samples[lo])
    ELSE LET mid == (lo + hi) \div 2
         IN  The({hist_add_span(half, samples, mid + 1, hi) :
                     half \in {hist_add_span(st, samples, lo, mid)}})

\* hist_add for samples[1 .. i], in order.
hist_add_all(st, samples, i) == hist_add_span(st, samples, 1, i)

\* hist_reset(hist, touched, ntouched): the histogram afterwards.
hist_reset(st) ==
    [i \in 0 .. 255 |->
        IF \E k \in 1 .. Len(st.touched) : st.touched[k] = i THEN 0 ELSE st.hist[i]]

\* The median loop of hist_min_med_max: the first bin k at which the running
\* count cum reaches target.  Empty bins add nothing to cum, so the loop is
\* followed over the non-empty bins still ahead, in ascending order; with
\* target <= 0 it stops at bin 0.
RECURSIVE MedianScan(_, _, _, _, _)
MedianScan(hist, ahead, cum, target, zmax) ==
    IF target <= 0 THEN 0
    ELSE IF ahead = {} THEN zmax
    ELSE LET k == SetMin(ahead)
         IN  IF cum + hist[k] >= target THEN k
             ELSE MedianScan(hist, ahead \ {k}, cum + hist[k], target, zmax)

\* hist_min_med_max(hist, total, zmin, zmed, zmax)
hist_min_med_max(hist, total) ==
    LET used == {i \in 0 .. 255 : hist[i] # 0}
        zmin == IF used = {} THEN 0 ELSE SetMin(used)
        zmax == IF used = {} THEN 255 ELSE SetMax(used)
    IN  [zmin |-> zmin, zmax |-> zmax,
         zmed |-> MedianScan(hist, used, 0, (total + 1) \div 2, zmax)]

\* The 8r samples of the ring of radius r around column x of buffer row by, in
\* the order the source adds them: the two vertical sides, then top and bottom.
Ring(src, w, by, x, r) ==
    LET xl == clampi(x - r, 0, w - 1)
        xr == clampi(x + r, 0, w - 1)
        sides == [k \in 1 .. 2 * (2 * r + 1) |->
                    src[by + ((k - 1) \div 2) - r][IF (k - 1) % 2 = 0 THEN xl ELSE xr]]
        caps == [k \in 1 .. 2 * (2 * r - 1) |->
                    src[IF (k - 1) % 2 = 0 THEN by - r ELSE by + r]
                       [clampi(x + ((k - 1) \div 2) - (r - 1), 0, w - 1)]]
    IN  sides \o caps

\* zxy when it lies strictly between zmin and zmax, else zmed (stage B).
StageB(zxy, zmin, zmed, zmax) == IF zxy > zmin /\ zxy < zmax THEN zxy ELSE zmed

\* The loop for (r = 2; r <= max_r; ++r) from radius r on: [outv, st].
RECURSIVE Expand(_, _, _, _, _, _, _, _)
Expand(src, w, by, x, max_r, r, outv, st) ==
    IF r > max_r THEN [outv |-> outv, st |-> st]
    ELSE LET ring == Ring(src, w, by, x, r)
             st1 == hist_add_all(st, ring, Len(ring))
             m == hist_min_med_max(st1.hist, (2 * r + 1) * (2 * r + 1))
         IN  IF m.zmed > m.zmin /\ m.zmed < m.zmax
             THEN [outv |-> StageB(src[by][x], m.zmin, m.zmed, m.zmax), st |-> st1]
             ELSE Expand(src, w, by, x, max_r, r + 1, m.zmed, st1)

\* The body of the loop over x: [out, hist], out being the value written to
\* out[x] and hist the block's histogram afterwards.
AmfPixel(src, w, by, x, max_r, hist) ==
    LET xm1 == IF x = 0 THEN 0 ELSE x - 1
        xp1 == IF x = w - 1 THEN w - 1 ELSE x + 1
        p == Eval([i \in 0 .. 8 |->
                    src[by + (i \div 3) - 1]
                       [IF i % 3 = 0 THEN xm1 ELSE IF i % 3 = 1 THEN x ELSE xp1]])
        zmed == median9(p)
        zmin == SetMin({p[i] : i \in 0 .. 8})
        zmax == SetMax({p[i] : i \in 0 .. 8})
    IN  IF zmed > zmin /\ zmed < zmax
        THEN [out |-> StageB(src[by][x], zmin, zmed, zmax), hist |-> hist]
        ELSE LET st0 == hist_add_all([hist |-> hist, touched |-> <<>>],
                                     [k \in 1 .. 9 |-> p[k - 1]], 9)
                 res == Expand(src, w, by, x, max_r, 2, zmed, st0)
             IN  [out |-> res.outv, hist |-> hist_reset(res.st)]

\* Columns 0 .. x of output row by: [row, hist].
RECURSIVE AmfRow(_, _, _, _, _, _, _)
AmfRow(src, w, by, x, max_r, hist, row) ==
    IF x = w THEN [row |-> row, hist |-> hist]
    ELSE LET px == AmfPixel(src, w, by, x, max_r, hist)
         IN  AmfRow(src, w, by, x + 1, max_r, px.hist, [row EXCEPT ![x] = px.out])

\* if (max_window_size < 3) max_window_size = 3;
\* if ((max_window_size & 1) == 0) ++max_window_size;
WindowUsed(max_window_size) ==
    LET m == IF max_window_size < 3 THEN 3 ELSE max_window_size
    IN  IF m % 2 = 0 THEN m + 1 ELSE m

\* const int max_r = (max_window_size - 1) / 2;
MaxRadius(max_window_size) == (WindowUsed(max_window_size) - 1) \div 2

\* if (block_h < 8) block_h = 8;
MinBlockH == 8
BlockHeight(block_h) == IF block_h < MinBlockH THEN MinBlockH ELSE block_h

\* The row-blocks of the loop for (y0 = 0; y0 < h; y0 += block_h).
BlockCount(h, block_h) == (h + block_h - 1) \div block_h
BlockY0(b, block_h) == b * block_h
BlockY1(b, block_h, h) == Min2(b * block_h + block_h, h)

\* The image row that halo row yy of the block starting at y0 is copied from.
HaloSource(y0, yy, max_r, h) == clampi(y0 + yy - max_r, 0, h - 1)

\* A block before its first step: std::vector<uint> src(halo_h * w), hist{}.
NewBlock(w, h, b, par) ==
    LET y0 == BlockY0(b, par.block_h)
        halo_h == (BlockY1(b, par.block_h, h) - y0) + 2 * par.max_r
    IN  [pc |-> "copy", yy |-> 0, y |-> y0,
         src |-> [yy \in 0 .. halo_h - 1 |-> [x \in 0 .. w - 1 |-> 0]],
         hist |-> ZeroHist]

\* The worker that runs block b under schedule(static): contiguous chunks.
Owner(b, nblocks, workers) == b \div ((nblocks + workers - 1) \div workers)

(***************************************************************************)
(* SpecAMF: one call of adaptive_median_filter.  Every row-block of the    *)
(* parallel loop copies its halo row by row from the shared raster and     *)
(* then writes its output rows into the shared raster; the blocks of one   *)
(* worker run in order, the workers interleave.                            *)
(***************************************************************************)
MaxWindow == 5
MaxWorkers == 2
AmfWidth == 2
TailRows == 3
AmfLevels == {0, 128, 255}
BlockHeights == {4, 16}

\* Small rasters, every sample free.
AmfSmall ==
    UNION {{MkImg(d[1], d[2], p) : p \in Planes(d[1], d[2], AmfLevels)} :
              d \in {<<1, 2>>, <<AmfWidth, 2>>}}

\* Rasters one row taller than the smallest row-block: black, but for the
\* last TailRows rows, whose samples are 0 or 255.
AmfTall ==
    LET h == MinBlockH + 1
    IN  {MkImg(AmfWidth, h,
               [y \in 0 .. h - 1 |->
                   IF y < h - TailRows THEN [x \in 0 .. AmfWidth - 1 |-> 0]
                   ELSE t[y - (h - TailRows)]]) :
            t \in [0 .. TailRows - 1 -> [0 .. AmfWidth - 1 -> {0, 255}]]}

AmfInit ==
    /\ a_in \in AmfSmall \cup AmfTall
    /\ a_img = a_in
    /\ a_args \in [max_window_size : 2 .. MaxWindow, block_h : BlockHeights,
                   workers : 1 .. MaxWorkers]
    /\ a_par = <<>>
    /\ a_pc = "call"
    /\ a_blk = <<>>
    /\ a_err = "none"
    /\ MorphIdle /\ IntIdle /\ EnhIdle /\ AgIdle /\ BinIdle /\ CtIdle /\ CpIdle /\ OtIdle /\ BcIdle /\ DkIdle /\ LuIdle /\ CliIdle /\ DqIdle /\ HxIdle /\ SrIdle /\ MdIdle

\* The function up to the parallel loop: the early returns and the
\* parameter handling.  No path reports an error.
AmfCall ==
    /\ a_pc = "call"
    /\ IF a_img.w * a_img.h = 0 \/ a_img.w < 2 \/ a_img.h < 2
       THEN a_pc' = "done" /\ UNCHANGED <<a_par, a_blk>>
       ELSE LET par == [max_r |-> MaxRadius(a_args.max_window_size),
                        block_h |-> BlockHeight(a_args.block_h)]
            IN  /\ a_par' = par
                /\ a_blk' = [b \in 0 .. BlockCount(a_img.h, par.block_h) - 1 |->
                                NewBlock(a_img.w, a_img.h, b, par)]
                /\ a_pc' = "parallel"
    /\ UNCHANGED <<a_in, a_img, a_args, a_err, amfOthers>>

\* Block b may take a step: the earlier blocks of its worker are finished.
Runnable(b) ==
    \A b2 \in 0 .. b - 1 :
        Owner(b2, BlockCount(a_img.h, a_par.block_h), a_args.workers)
            = Owner(b, BlockCount(a_img.h, a_par.block_h), a_args.workers)
        => a_blk[b2].pc = "done"

\* std::copy(row_src, row_src + w, row_dst) for the next halo row of a block.
AmfCopyRow ==
    /\ a_pc = "parallel"
    /\ \E b \in DOMAIN a_blk :
        /\ Runnable(b)
        /\ a_blk[b].pc = "copy"
        /\ LET blk == a_blk[b]
               ys == HaloSource(BlockY0(b, a_par.block_h), blk.yy, a_par.max_r, a_img.h)
               last == blk.yy + 1 = Cardinality(DOMAIN blk.src)
           IN  a_blk' = [a_blk EXCEPT ![b] =
                   [blk EXCEPT !.src[blk.yy] = a_img.px[0][ys],
                               !.yy = blk.yy + 1,
                               !.pc = IF last THEN "rows" ELSE "copy"]]
    /\ UNCHANGED <<a_in, a_img, a_args, a_par, a_pc, a_err, amfOthers>>

\* One iteration of the loop over the rows y of a block: the row is computed
\* from the block's buffer and written into the shared raster.
AmfProcessRow ==
    /\ a_pc = "parallel"
    /\ \E b \in DOMAIN a_blk :
        /\ Runnable(b)
        /\ a_blk[b].pc = "rows"
        /\ LET blk == a_blk[b]
               by == (blk.y - BlockY0(b, a_par.block_h)) + a_par.max_r
               res == AmfRow(blk.src, a_img.w, by, 0, a_par.max_r, blk.hist,
                             a_img.px[0][blk.y])
           IN  /\ a_img' = [a_img EXCEPT !.px[0][blk.y] = res.row]
               /\ a_blk' = [a_blk EXCEPT ![b] =
                     [blk EXCEPT !.hist = res.hist,
                                 !.y = blk.y + 1,
                                 !.pc = IF blk.y + 1 = BlockY1(b, a_par.block_h, a_img.h)
                                        THEN "done" ELSE "rows"]]
    /\ UNCHANGED <<a_in, a_args, a_par, a_pc, a_err, amfOthers>>

\* The end of the parallel loop: every block is finished.
AmfReturn ==
    /\ a_pc = "parallel"
    /\ \A b \in DOMAIN a_blk : a_blk[b].pc = "done"
    /\ a_pc' = "done"
    /\ UNCHANGED <<a_in, a_img, a_args, a_par, a_blk, a_err, amfOthers>>

AmfNext == AmfCall \/ AmfCopyRow \/ AmfProcessRow \/ AmfReturn

SpecAMF == AmfInit /\ [][AmfNext]_vars

(***************************************************************************)
(* Claims about the adaptive median filter, checked under SpecAMF          *)
(***************************************************************************)

\* Rows y .. y1-1 of a block computed from its buffer src and written to img.
RECURSIVE SerialRows(_, _, _, _, _, _, _)
SerialRows(img, src, y0, y, y1, hist, par) ==
    IF y = y1 THEN img
    ELSE LET res == AmfRow(src, img.w, (y - y0) + par.max_r, 0, par.max_r, hist,
                           img.px[0][y])
         IN  SerialRows([img EXCEPT !.px[0][y] = res.row], src, y0, y + 1, y1,
                        res.hist, par)

\* The raster after one worker has run blocks b, b+1, ... one after the other,
\* each copying its whole halo and then writing its rows.
RECURSIVE SerialBlocks(_, _, _)
SerialBlocks(img, b, par) ==
    IF b = BlockCount(img.h, par.block_h) THEN img
    ELSE LET y0 == BlockY0(b, par.block_h)
             y1 == BlockY1(b, par.block_h, img.h)
             src == Eval([yy \in 0 .. (y1 - y0) + 2 * par.max_r - 1 |->
                            img.px[0][HaloSource(y0, yy, par.max_r, img.h)]])
         IN  SerialBlocks(SerialRows(img, src, y0, y0, y1, ZeroHist, par), b + 1, par)

\* C4: whatever the number of workers and however their steps interleave,
\* adaptive_median_filter returns the raster that one worker running the
\* row-blocks in sequence returns.
C4_WorkersAgree ==
    (a_pc = "done" /\ a_par # <<>>) => a_img = SerialBlocks(a_in, 0, a_par)

\* C10: a call with an even max_window_size reports InvalidParameter and
\* leaves the raster as it was.
C10_EvenWindowRejected ==
    (a_pc = "done" /\ a_args.max_window_size % 2 = 0) =>
        (a_err = "InvalidParameter" /\ a_img = a_in)

\* The samples of a single-channel raster.
SampleSet(img) == {img.px[0][y][x] : y \in 0 .. img.h - 1, x \in 0 .. img.w - 1}

\* C11: every sample adaptive_median_filter returns lies between the smallest
\* and the largest sample of its input; a uniform raster is returned as it
\* was and a raster of 0 / 255 samples stays one.
C11_OutputWithinInputRange ==
    a_pc = "done" =>
        /\ \A v \in SampleSet(a_img) :
              SetMin(SampleSet(a_in)) <= v /\ v <= SetMax(SampleSet(a_in))
        /\ Cardinality(SampleSet(a_in)) = 1 => a_img = a_in
        /\ IsBinary(a_in) => IsBinary(a_img)

\* The filter ran with a window it had to expand and changed a sample of a
\* raster that holds more than one intensity.
C11_Witness ==
    /\ a_pc = "done"
    /\ a_par # <<>>
    /\ a_par.max_r = 2
    /\ Cardinality(SampleSet(a_in)) > 1
    /\ a_img # a_in

(***************************************************************************)
(* Adaptive Gaussian blur, blend loop (src/src/lib/filters/filters.cpp)    *)
(*                                                                         *)
(* The two blurs are calls into the image library; the model starts where  *)
(* they have returned: img holds the low-sigma blur and high the           *)
(* high-sigma blur.  The edge thresholds tried are 0 and powers of two, for *)
(* which every float of the blend (invT, t, a, a*lv + (1-a)*hv) is exact,  *)
(* so the blend is computed here with integers: a = num / den.             *)
(***************************************************************************)

Abs(v) == IF v < 0 THEN 0 - v ELSE v

\* utils::clamp_float_to_u8(num / den) for num >= 0: lround, then the clamp.
clamp_float_to_u8(num, den) ==
    LET iv == (2 * num + den) \div (2 * den)
    IN  IF iv < 0 THEN 0 ELSE IF iv > 255 THEN 255 ELSE iv

\* a = t * t * (3 - 2 * t) with t = clampf(grad * invT, 0, 1), invT = 1 / T,
\* and t = 1 when invT is 0: [num, den].
Smoothstep(grad, T) ==
    IF T = 0 THEN [num |-> 1, den |-> 1]
    ELSE LET g == IF grad > T THEN T ELSE grad
         IN  [num |-> g * g * (3 * T - 2 * g), den |-> T * T * T]

\* The value written to out[x]: the row by of lowbuf blended with hi.
BlendPixel(lowbuf, hi, w, by, x, T) ==
    LET r_up == lowbuf[by - 1]
        r_mid == lowbuf[by]
        r_down == lowbuf[by + 1]
        dx == IF x = 0 THEN r_mid[1] - r_mid[0]
              ELSE IF x = w - 1 THEN r_mid[x] - r_mid[w - 2]
              ELSE r_mid[x + 1] - r_mid[x - 1]
        dy == r_down[x] - r_up[x]
        a == Smoothstep(Abs(dx) + Abs(dy), T)
    IN  clamp_float_to_u8(a.num * r_mid[x] + (a.den - a.num) * hi[x], a.den)

\* const int ys = utils::clampi(y0 + yy - 1, 0, h - 1);
BlendHaloSource(y0, yy, h) == clampi(y0 + yy - 1, 0, h - 1)

\* A block before its first step: std::vector<uint> lowbuf(halo_h * w).
NewBlendBlock(w, h, b, block_h) ==
    LET y0 == BlockY0(b, block_h)
        halo_h == (BlockY1(b, block_h, h) - y0) + 2
    IN  [pc |-> "copy", yy |-> 0, y |-> y0,
         lowbuf |-> [yy \in 0 .. halo_h - 1 |-> [x \in 0 .. w - 1 |-> 0]]]

(***************************************************************************)
(* SpecBlend: the blend of one call of adaptive_gaussian_blur_omp, its     *)
(* row-blocks run by one or more workers.                                  *)
(***************************************************************************)
BlendWidth == 2
BlendTailRows == 3
EdgeThresholds == {0, 2, 4}
LowLevels == {0, 2, 200}
HighLevels == {1, 100}

\* A raster of one value: what a wide blur leaves of an image.
Flat(w, h, v) == MkImg(w, h, [y \in 0 .. h - 1 |-> [x \in 0 .. w - 1 |-> v]])

BlendSmall ==
    UNION {{MkImg(d[1], d[2], p) : p \in Planes(d[1], d[2], LowLevels)} :
              d \in {<<BlendWidth, 2>>, <<BlendWidth + 1, 2>>}}

\* Low-blur rasters one row taller than the smallest row-block: black, but
\* for the last BlendTailRows rows.
BlendTall ==
    LET h == MinBlockH + 1
    IN  {MkImg(BlendWidth, h,
               [y \in 0 .. h - 1 |->
                   IF y < h - BlendTailRows THEN [x \in 0 .. BlendWidth - 1 |-> 0]
                   ELSE t[y - (h - BlendTailRows)]]) :
            t \in [0 .. BlendTailRows - 1 -> [0 .. BlendWidth - 1 -> {0, 2}]]}

BlendInit ==
    /\ g_low \in BlendSmall \cup BlendTall
    /\ \E v \in HighLevels : g_high = Flat(g_low.w, g_low.h, v)
    /\ g_img = g_low
    /\ g_args \in [edge_thresh : EdgeThresholds, block_h : BlockHeights,
                   workers : 1 .. MaxWorkers]
    /\ g_pc = "blend"
    /\ g_blk = <<>>
    /\ MorphIdle /\ IntIdle /\ EnhIdle /\ AmfIdle /\ BinIdle /\ CtIdle /\ CpIdle /\ OtIdle /\ BcIdle /\ DkIdle /\ LuIdle /\ CliIdle /\ DqIdle /\ HxIdle /\ SrIdle /\ MdIdle

\* The entry of the parallel loop, with block_h clamped to at least 8.
BlendSetup ==
    /\ g_pc = "blend"
    /\ g_blk' = [b \in 0 .. BlockCount(g_img.h, BlockHeight(g_args.block_h)) - 1 |->
                    NewBlendBlock(g_img.w, g_img.h, b, BlockHeight(g_args.block_h))]
    /\ g_pc' = "parallel"
    /\ UNCHANGED <<g_low, g_high, g_img, g_args, agOthers>>

\* Block b may take a step: the earlier blocks of its worker are finished.
BlendRunnable(b) ==
    \A b2 \in 0 .. b - 1 :
        Owner(b2, BlockCount(g_img.h, BlockHeight(g_args.block_h)), g_args.workers)
            = Owner(b, BlockCount(g_img.h, BlockHeight(g_args.block_h)), g_args.workers)
        => g_blk[b2].pc = "done"

\* std::copy(src, src + w, dst) for the next halo row of a block.
BlendCopyRow ==
    /\ g_pc = "parallel"
    /\ \E b \in DOMAIN g_blk :
        /\ BlendRunnable(b)
        /\ g_blk[b].pc = "copy"
        /\ LET blk == g_blk[b]
               ys == BlendHaloSource(BlockY0(b, BlockHeight(g_args.block_h)), blk.yy, g_img.h)
           IN  g_blk' = [g_blk EXCEPT ![b] =
                   [blk EXCEPT !.lowbuf[blk.yy] = g_img.px[0][ys],
                               !.yy = blk.yy + 1,
                               !.pc = IF blk.yy + 1 = Cardinality(DOMAIN blk.lowbuf)
                                      THEN "rows" ELSE "copy"]]
    /\ UNCHANGED <<g_low, g_high, g_img, g_args, g_pc, agOthers>>

\* One iteration of the loop over the rows y of a block: the row is blended
\* from the block's buffer and high, and written into img.
BlendRow ==
    /\ g_pc = "parallel"
    /\ \E b \in DOMAIN g_blk :
        /\ BlendRunnable(b)
        /\ g_blk[b].pc = "rows"
        /\ LET blk == g_blk[b]
               block_h == BlockHeight(g_args.block_h)
               by == (blk.y - BlockY0(b, block_h)) + 1
           IN  /\ g_img' = [g_img EXCEPT !.px[0][blk.y] =
                     [x \in 0 .. g_img.w - 1 |->
                         BlendPixel(blk.lowbuf, g_high.px[0][blk.y], g_img.w, by, x,
                                    g_args.edge_thresh)]]
               /\ g_blk' = [g_blk EXCEPT ![b] =
                     [blk EXCEPT !.y = blk.y + 1,
                                 !.pc = IF blk.y + 1 = BlockY1(b, block_h, g_img.h)
                                        THEN "done" ELSE "rows"]]
    /\ UNCHANGED <<g_low, g_high, g_args, g_pc, agOthers>>

\* The end of the parallel loop: every block is finished.
BlendReturn ==
    /\ g_pc = "parallel"
    /\ \A b \in DOMAIN g_blk : g_blk[b].pc = "done"
    /\ g_pc' = "done"
    /\ UNCHANGED <<g_low, g_high, g_img, g_args, g_blk, agOthers>>

BlendNext == BlendSetup \/ BlendCopyRow \/ BlendRow \/ BlendReturn

SpecBlend == BlendInit /\ [][BlendNext]_vars

(***************************************************************************)
(* Claims about the adaptive Gaussian blend, checked under SpecBlend       *)
(***************************************************************************)

\* The blend computed out of place: every pixel from rows y-1, y, y+1
\* (replicated at the border) of the low-blur raster as it was before any
\* write.
OutOfPlaceBlend(low, high, T) ==
    [low EXCEPT !.px[0] =
        [y \in 0 .. low.h - 1 |-> [x \in 0 .. low.w - 1 |->
            BlendPixel(<<low.px[0][clampi(y - 1, 0, low.h - 1)], low.px[0][y],
                         low.px[0][clampi(y + 1, 0, low.h - 1)]>>,
                       high.px[0][y], low.w, 2, x, T)]]]

\* C5: the in-place row-block blend returns what the out-of-place blend
\* returns: every output pixel is computed from the low-blur raster as it was
\* before the blend, for every height and block height and every order in
\* which the blocks run.
C5_BlendOutOfPlace ==
    g_pc = "done" => g_img = OutOfPlaceBlend(g_low, g_high, g_args.edge_thresh)

(***************************************************************************)
(* Double-precision arithmetic, as far as compute_otsu_threshold and       *)
(* deskew_projection_profile use it.                                       *)
(* A natural number is a sequence of limbs to the base LimbBase, least     *)
(* significant first and without leading zero limbs; a non-negative double *)
(* is a record [m, e] of value m * 2^e with m such a number of at most 53  *)
(* bits (2^53 itself included).  Every operation rounds to nearest, ties   *)
(* to even; the values met are far from the subnormal and infinite ranges. *)
(***************************************************************************)
LimbBits == 15
LimbBase == 32768

\* 2^n
RECURSIVE Pow2(_)
Pow2(n) == IF n = 0 THEN 1 ELSE 2 * Pow2(n - 1)

\* The exponent of a positive integer: the largest j with 2^j <= v.
RECURSIVE Log2(_)
Log2(v) == IF v < 2 THEN 0 ELSE 1 + Log2(v \div 2)

RECURSIVE BigFromInt(_)
BigFromInt(n) == IF n = 0 THEN <<>> ELSE <<n % LimbBase>> \o BigFromInt(n \div LimbBase)

\* a without its leading zero limbs.
RECURSIVE BigNorm(_)
BigNorm(a) ==
    IF a = <<>> THEN a
    ELSE IF a[Len(a)] = 0 THEN BigNorm(SubSeq(a, 1, Len(a) - 1)) ELSE a

\* a + b + carry
RECURSIVE BigAdd(_, _, _)
BigAdd(a, b, carry) ==
    IF a = <<>> /\ b = <<>> THEN (IF carry = 0 THEN <<>> ELSE <<carry>>)
    ELSE LET x == IF a = <<>> THEN 0 ELSE Head(a)
             y == IF b = <<>> THEN 0 ELSE Head(b)
             s == x + y + carry
         IN  <<s % LimbBase>>
             \o The({BigAdd(ta, tb, c) : ta \in {IF a = <<>> THEN a ELSE Tail(a)},
                                         tb \in {IF b = <<>> THEN b ELSE Tail(b)},
                                         c \in {s \div LimbBase}})

\* The limbs of a - b - borrow for a >= b + borrow, leading zeros kept.
RECURSIVE BigSubLimbs(_, _, _)
BigSubLimbs(a, b, borrow) ==
    IF a = <<>> THEN <<>>
    ELSE LET y == IF b = <<>> THEN 0 ELSE Head(b)
             s == Head(a) - y - borrow
         IN  <<IF s < 0 THEN s + LimbBase ELSE s>>
             \o The({BigSubLimbs(ta, tb, c) : ta \in {Tail(a)},
                                              tb \in {IF b = <<>> THEN b ELSE Tail(b)},
                                              c \in {IF s < 0 THEN 1 ELSE 0}})

BigSub(a, b) == BigNorm(BigSubLimbs(a, b, 0))

\* -1, 0 or 1 as a < b, a = b or a > b.
RECURSIVE BigCmp(_, _)
BigCmp(a, b) ==
    IF Len(a) # Len(b) THEN (IF Len(a) < Len(b) THEN 0 - 1 ELSE 1)
    ELSE IF a = <<>> THEN 0
    ELSE IF a[Len(a)] # b[Len(b)] THEN (IF a[Len(a)] < b[Len(b)] THEN 0 - 1 ELSE 1)
    ELSE The({BigCmp(ta, tb) : ta \in {BigNorm(SubSeq(a, 1, Len(a) - 1))},
                               tb \in {BigNorm(SubSeq(b, 1, Len(b) - 1))}})

\* a * k + carry for 0 <= k < 2^16.
RECURSIVE BigMulSmall(_, _, _)
BigMulSmall(a, k, carry) ==
    IF a = <<>> THEN BigFromInt(carry)
    ELSE LET s == Head(a) * k + carry
         IN  <<s % LimbBase>>
             \o The({BigMulSmall(ta, k, c) : ta \in {Tail(a)}, c \in {s \div LimbBase}})

\* a with n zero limbs below it.
BigShiftLimbs(a, n) == IF a = <<>> THEN a ELSE [i \in 1 .. n |-> 0] \o a

RECURSIVE BigMul(_, _)
BigMul(a, b) ==
    IF a = <<>> \/ b = <<>> THEN <<>>
    ELSE The({BigAdd(low, BigShiftLimbs(high, 1), 0) :
                 low \in {BigNorm(BigMulSmall(b, Head(a), 0))},
                 high \in {The({BigMul(ta, b) : ta \in {Tail(a)}})}})

\* [q, r] with a = q * d + r and 0 <= r < d, for 0 < d < 2^16; i limbs of a
\* have been brought down, rem is the remainder so far.
RECURSIVE BigDivLimbs(_, _, _, _)
BigDivLimbs(a, d, i, rem) ==
    IF i = 0 THEN [q |-> <<>>, r |-> rem]
    ELSE LET cur == rem * LimbBase + a[i]
         IN  The({[q |-> rest.q \o <<cur \div d>>, r |-> rest.r] :
                     rest \in {The({BigDivLimbs(a, d, i - 1, r) : r \in {cur % d}})}})

BigDivSmall(a, d) ==
    The({[q |-> BigNorm(res.q), r |-> res.r] :
            res \in {The({BigDivLimbs(v, d, Len(v), 0) : v \in {a}})}})

\* The number of bits of a.
BitLen(a) == IF a = <<>> THEN 0 ELSE LimbBits * (Len(a) - 1) + Log2(a[Len(a)]) + 1

\* a * 2^n
BigShl(a, n) ==
    The({BigShiftLimbs(BigNorm(BigMulSmall(v, k, 0)), n \div LimbBits) :
            v \in {a}, k \in {Pow2(n % LimbBits)}})

\* floor(a / 2^n)
BigShr(a, n) ==
    The({IF n \div LimbBits >= Len(v) THEN <<>>
         ELSE BigDivSmall(SubSeq(v, (n \div LimbBits) + 1, Len(v)), Pow2(n % LimbBits)).q :
            v \in {a}})

\* The double nearest to (M + f) * 2^e, where 0 <= f < 1 and f > 0 iff
\* sticky; M has more than 53 bits whenever sticky.
RoundDouble(M, e, sticky) ==
    The({IF BitLen(v) <= 53 THEN [m |-> v, e |-> e]
         ELSE The({LET c == The({BigCmp(r, half) : r \in {BigSub(v, BigShl(q, s))},
                                                   half \in {BigShl(<<1>>, s - 1)}})
                       odd == q # <<>> /\ q[1] % 2 = 1
                       up == c > 0 \/ (c = 0 /\ (sticky \/ odd))
                   IN  [m |-> IF up THEN BigAdd(q, <<>>, 1) ELSE q, e |-> e + s] :
                      s \in {BitLen(v) - 53}, q \in {BigShr(v, BitLen(v) - 53)}}) :
            v \in {M}})

\* static_cast<double>(n) for a natural number n below 2^31.
DoubleOfInt(n) == [m |-> BigFromInt(n), e |-> 0]

\* a / static_cast<double>(d) for a double a holding the natural number n and
\* an int d with 0 < d < 2^16.
DoubleDivInt(n, d) ==
    The({RoundDouble(res.q, 0 - 72, res.r # 0) :
            res \in {BigDivSmall(BigShl(BigFromInt(n), 72), d)}})

\* |a - b|
DoubleAbsDiff(a, b) ==
    The({LET e == Min2(x.e, y.e)
         IN  The({RoundDouble(IF BigCmp(A, B) >= 0 THEN BigSub(A, B) ELSE BigSub(B, A),
                              e, FALSE) :
                     A \in {BigShl(x.m, x.e - e)}, B \in {BigShl(y.m, y.e - e)}}) :
            x \in {a}, y \in {b}})

\* a * b
DoubleMul(a, b) ==
    The({RoundDouble(BigMul(x.m, y.m), x.e + y.e, FALSE) : x \in {a}, y \in {b}})

\* a > b
DoubleGT(a, b) ==
    The({LET e == Min2(x.e, y.e)
         IN  BigCmp(BigShl(x.m, x.e - e), BigShl(y.m, y.e - e)) > 0 :
            x \in {a}, y \in {b}})

(***************************************************************************)
(* Binarization (src/src/lib/binarization/binarization.cpp)                *)
(*                                                                         *)
(* The doubles of the source are sums, means and deviations of integer     *)
(* samples.  compute_otsu_threshold is computed in doubles, rounding as    *)
(* the source rounds; the comparisons of binarize_sauvola and              *)
(* binarize_bataineh are decided exactly, on integers, after clearing      *)
(* denominators and square roots.                                          *)
(***************************************************************************)

\* hist[t] of compute_otsu_threshold: the samples are read as unsigned char.
HistCount(img, t) ==
    Cardinality({a \in Pixels(img.w, img.h) : Px(img, a[1], a[2]) % 256 = t})

\* The loop over t of compute_otsu_threshold, followed over the non-empty
\* bins still ahead in ascending order: an empty bin either comes before the
\* first sample (w_b == 0, continue) or leaves w_b, sum_b and every operand of
\* between as they were, so that between equals the value it was last
\* compared with and is not > max_between.  st = [w_b, sum_b, max, best_t];
\* sum_all and sum_b are doubles holding exact integers, max is max_between
\* once it has been assigned (before, it is -1.0 and every between exceeds it).
RECURSIVE OtsuScan(_, _, _, _, _)
OtsuScan(img, ahead, N, sum_all, st) ==
    IF ahead = {} THEN st.best_t
    ELSE LET t == SetMin(ahead)
             w_b == st.w_b + HistCount(img, t)
             w_f == N - w_b
             sum_b == st.sum_b + t * HistCount(img, t)
             m_b == DoubleDivInt(sum_b, w_b)
             m_f == DoubleDivInt(sum_all - sum_b, w_f)
             diff == DoubleAbsDiff(m_b, m_f)
             between == DoubleMul(DoubleMul(DoubleOfInt(w_b * w_f), diff), diff)
             better == ~st.max.set \/ DoubleGT(between, st.max.val)
         IN  IF w_f = 0 THEN st.best_t
             ELSE The({OtsuScan(img, ahead \ {t}, N, sum_all, next) :
                          next \in {[w_b |-> w_b, sum_b |-> sum_b,
                                     max |-> IF better THEN [set |-> TRUE, val |-> between]
                                             ELSE st.max,
                                     best_t |-> IF better THEN t ELSE st.best_t]}})

\* compute_otsu_threshold(g)
compute_otsu_threshold(img) ==
    LET N == img.w * img.h
        used == {t \in 0 .. 255 : HistCount(img, t) # 0}
    IN  IF N <= 0 THEN 128
        ELSE OtsuScan(img, used, N,
                      SumCells(img.px[0], Pixels(img.w, img.h)),
                      [w_b |-> 0, sum_b |-> 0,
                       max |-> [set |-> FALSE, val |-> DoubleOfInt(0)],
                       best_t |-> 128])

\* The values lo, lo + 2, ... up to hi (a loop with step = 2).
Stepped(lo, hi) == {v \in lo .. hi : (v - lo) % 2 = 0}

\* compute_border_mean(g): [sum, cnt].  b = max(1, floor(0.05 * min(W, H))).
compute_border_mean(img) ==
    LET W == img.w
        H == img.h
        b == Max2(1, Min2(W, H) \div 20)
        top == Stepped(0, W - 1) \X Stepped(0, b - 1)
        bottom == Stepped(0, W - 1) \X Stepped(H - b, H - 1)
        left == Stepped(0, b - 1) \X Stepped(b, H - b - 1)
        right == Stepped(W - b, W - 1) \X Stepped(b, H - b - 1)
    IN  IF W <= 0 \/ H <= 0 THEN [sum |-> 0, cnt |-> 0]
        ELSE [sum |-> SumCells(img.px[0], top) + SumCells(img.px[0], bottom)
                      + SumCells(img.px[0], left) + SumCells(img.px[0], right),
              cnt |-> Cardinality(top) + Cardinality(bottom)
                      + Cardinality(left) + Cardinality(right)]

\* input_image(x, y, z) = is_foreground ? 0 : 255;
OtsuSample(pixel, threshold, light_background) ==
    LET is_foreground == IF light_background THEN pixel <= threshold
                         ELSE pixel > threshold
    IN  IF is_foreground THEN 0 ELSE 255

\* A plausible slip: the check of the channel count left out, the first
\* channel binarized.
binarize_otsu_any_spectrum(img) ==
    The({LET border == compute_border_mean(img)
             light_background == border.cnt > 0 /\ border.sum > threshold * border.cnt
         IN  [img |-> [img EXCEPT !.px[0] =
                         [y \in 0 .. img.h - 1 |-> [x \in 0 .. img.w - 1 |->
                             OtsuSample(img.px[0][y][x] % 256, threshold, light_background)]]],
              threw |-> FALSE] :
            threshold \in {compute_otsu_threshold(img)}})

\* binarize_otsu(input_image): [img, threw].
binarize_otsu(img) ==
    IF img.s # 1 THEN [img |-> img, threw |-> TRUE]
    ELSE The({LET border == compute_border_mean(img)
                  light_background == border.cnt > 0 /\ border.sum > threshold * border.cnt
              IN  [img |-> [img EXCEPT !.px[0] =
                              [y \in 0 .. img.h - 1 |-> [x \in 0 .. img.w - 1 |->
                                  OtsuSample(img.px[0][y][x] % 256, threshold, light_background)]]],
                   threw |-> FALSE] :
                 threshold \in {compute_otsu_threshold(img)}})

\* A plausible slip: the comparison stored as it is, not scaled to a sample.
ThresholdFlag(above) == IF above THEN 1 ELSE 0

\* (pixel > threshold) * 255
ThresholdMask(above) == IF above THEN 255 ELSE 0

\* N, sum, sum_sq of the window [x1, x2] x [y1, y2], and
\* D = max(0, sum_sq * N - sum^2), so that std_dev = sqrt(D) / N.
WindowStats(T, T2, x1, y1, x2, y2) ==
    LET N == (x2 - x1 + 1) * (y2 - y1 + 1)
        sum == get_area_sum(T, x1, y1, x2, y2)
        sum_sq == get_area_sum(T2, x1, y1, x2, y2)
    IN  [N |-> N, sum |-> sum, sum_sq |-> sum_sq,
         D |-> Max2(0, sum_sq * N - sum * sum)]

\* A > c * sqrt(D) for c >= 0, D >= 0, decided without forming A^2 or c^2 * D:
\* with A = q*c + r, it is q^2 + (2*q*r + r^2/c) / c > D.
AboveRoot(A, c, D) ==
    IF A <= 0 THEN FALSE
    ELSE IF c = 0 \/ D = 0 THEN TRUE
    ELSE LET q == A \div c
             r == A % c
         IN  IF q = 0 THEN FALSE
             ELSE IF q > D \div q THEN TRUE
             ELSE IF q + 1 <= D \div (q + 1) THEN FALSE
             ELSE LET lhs == 2 * q * r + ((r * r) \div c)
                      rhs == c * (D - q * q)
                  IN  lhs > rhs \/ (lhs = rhs /\ (r * r) % c # 0)

\* input_image(x, y, z) > mean * (1 + k * (std_dev / R - 1)) - delta, with
\* R = 128, k = k.num / k.den, mean = sum / N and std_dev = sqrt(D) / N:
\* 128*N*(k.den*N*(pixel + delta) - (k.den - k.num)*sum) > k.num*sum*sqrt(D).
SauvolaAbove(pixel, st, k, delta) ==
    AboveRoot(128 * st.N * (k.den * st.N * (pixel + delta) - (k.den - k.num) * st.sum),
              k.num * st.sum, st.D)

\* binarize_sauvola(input_image, window_size, k, delta): [img, threw].
binarize_sauvola(img, window_size, k, delta) ==
    IF img.s # 1 THEN [img |-> img, threw |-> TRUE]
    ELSE LET T == calculate_integral_image(img)
             T2 == calculate_integral_image(MkImg(img.w, img.h, Squares(img.px[0], img.w, img.h)))
             w_half == window_size \div 2
         IN  [img |-> MkImg(img.w, img.h,
                         [y \in 0 .. img.h - 1 |-> [x \in 0 .. img.w - 1 |->
                             ThresholdMask(SauvolaAbove(img.px[0][y][x],
                                 WindowStats(T, T2, Max2(0, x - w_half), Max2(0, y - w_half),
                                             Min2(img.w - 1, x + w_half),
                                             Min2(img.h - 1, y + w_half)),
                                 k, delta))]]),
              threw |-> FALSE]

\* pw_x_half / pw_y_half: the image dimension divided by the divisor of the
\* branch taken, made odd, halved.
PrimaryHalf(dim, divisor) ==
    LET pw == dim \div divisor
    IN  (IF pw % 2 = 0 THEN pw + 1 ELSE pw) \div 2

\* The divisors <<for width, for height>> of the three branches of step 3.
PrimaryDivisors(branch) ==
    IF branch = 1 THEN <<6, 4>> ELSE IF branch = 2 THEN <<30, 20>> ELSE <<40, 30>>

\* The branches of step 3 an image can take.  Which one is taken depends on
\* p, std_dev and max_intensity, statistics in doubles that are not followed
\* here; the last branch needs img_width + img_height >= 400.
PrimaryBranches(img) == IF img.w + img.h < 400 THEN {1, 2} ELSE {1, 2, 3}

\* The window of half-sizes hx, hy around (x, y), clamped to the raster.
ClampedWindow(img, x, y, hx, hy) ==
    [x1 |-> Max2(0, x - hx), y1 |-> Max2(0, y - hy),
     x2 |-> Min2(img.w - 1, x + hx), y2 |-> Min2(img.h - 1, y + hy)]

\* The values use_sub_window can take at (x, y): the counting loops run over
\* i in [y1, y2) and j in [x1, x2); over no pixel, n_w_red = n_w_black = 0
\* and it is false, otherwise it depends on T_con and offset (doubles not
\* followed here).
SubWindowChoices(win) ==
    IF win.x1 >= win.x2 \/ win.y1 >= win.y2 THEN {FALSE} ELSE BOOLEAN

\* The values img_double(x, y, z) > threshold can take for a final window of
\* statistics st.  With std_dev_window_val = 0 and min_std_dev = 0 the
\* divisor (mean_global + 0) * (0 + 0) is 0: the threshold is -inf when the
\* window mean is positive (the comparison is true) and NaN when it is 0 (the
\* comparison is false).  Otherwise the threshold is a double not followed
\* here.
BatainehAbove(st, min_zero) ==
    IF st.D = 0 /\ min_zero THEN {st.sum > 0} ELSE BOOLEAN

\* The samples output_image(x, y, z) can be given.
BatainehSamples(img, T, T2, x, y, hx, hy, min_zero) ==
    UNION {{ThresholdMask(above) :
               above \in BatainehAbove(
                   LET f == ClampedWindow(img, x, y,
                                          IF sub THEN hx \div 2 ELSE hx,
                                          IF sub THEN hy \div 2 ELSE hy)
                   IN  WindowStats(T, T2, f.x1, f.y1, f.x2, f.y2),
                   min_zero)} :
           sub \in SubWindowChoices(ClampedWindow(img, x, y, hx, hy))}

\* binarize_bataineh(input_image) when step 3 takes the given branch: the
\* rasters it can return.
BatainehOutputs(img, branch) ==
    LET T == calculate_integral_image(img)
        T2 == calculate_integral_image(MkImg(img.w, img.h, Squares(img.px[0], img.w, img.h)))
        hx == PrimaryHalf(img.w, PrimaryDivisors(branch)[1])
        hy == PrimaryHalf(img.h, PrimaryDivisors(branch)[2])
        min_zero == \E a \in Pixels(img.w, img.h) :
                        LET f == ClampedWindow(img, a[1], a[2], hx, hy)
                        IN  WindowStats(T, T2, f.x1, f.y1, f.x2, f.y2).D = 0
        may == Eval([a \in Pixels(img.w, img.h) |->
                       BatainehSamples(img, T, T2, a[1], a[2], hx, hy, min_zero)])
        all == UNION {may[a] : a \in Pixels(img.w, img.h)}
    IN  {MkImg(img.w, img.h, q) :
            q \in {q \in Planes(img.w, img.h, all) :
                      \A a \in Pixels(img.w, img.h) : q[a[2]][a[1]] \in may[a]}}

(***************************************************************************)
(* SpecBin: any sequence of binarizer calls on one raster.                 *)
(***************************************************************************)
MaxBinPixels == 4
BinLevels == {0, 100, 255}
\* int window_size = 15, float k = 0.2f, float delta = 0.0f.  0.2f exceeds 1/5
\* by 3 * 10^-9; on the rasters below no comparison with the threshold is
\* that close, and k is taken as 1/5.
DefaultWindow == 15
DefaultK == [num |-> 1, den |-> 5]
SauvolaWindows == {1, 3, DefaultWindow}
SauvolaKs == {DefaultK, [num |-> 1, den |-> 4], [num |-> 1, den |-> 2]}
SauvolaDeltas == {0, 10}

BinShapes == {d \in (1 .. MaxBinPixels) \X (1 .. MaxBinPixels) : d[1] * d[2] <= MaxBinPixels}

\* Single-channel rasters of every shape, and 1 x 1 rasters of three channels.
BinRasters ==
    UNION {{MkImg(d[1], d[2], p) : p \in Planes(d[1], d[2], BinLevels)} : d \in BinShapes}
    \cup {[w |-> 1, h |-> 1, s |-> 3, px |-> [c \in 0 .. 2 |-> p]] : p \in Planes(1, 1, BinLevels)}

BinInit ==
    /\ b_img \in BinRasters
    /\ b_prev = b_img
    /\ b_op = NoBinOp
    /\ MorphIdle /\ IntIdle /\ EnhIdle /\ AmfIdle /\ AgIdle /\ CtIdle /\ CpIdle /\ OtIdle /\ BcIdle /\ DkIdle /\ LuIdle /\ CliIdle /\ DqIdle /\ HxIdle /\ SrIdle /\ MdIdle

Otsu ==
    /\ b_op = NoBinOp
    /\ LET res == binarize_otsu(b_img) IN
        /\ b_prev' = b_img
        /\ b_img' = res.img
        /\ b_op' = [name |-> "otsu", threw |-> res.threw, defaults |-> TRUE]
    /\ UNCHANGED binOthers

Sauvola ==
    /\ b_op = NoBinOp
    /\ \E window_size \in SauvolaWindows, k \in SauvolaKs, delta \in SauvolaDeltas :
        LET res == binarize_sauvola(b_img, window_size, k, delta) IN
        /\ b_prev' = b_img
        /\ b_img' = res.img
        /\ b_op' = [name |-> "sauvola", threw |-> res.threw,
                    defaults |-> window_size = DefaultWindow /\ k = DefaultK /\ delta = 0]
    /\ UNCHANGED binOthers

Bataineh ==
    /\ b_op = NoBinOp
    /\ b_prev' = b_img
    /\ IF b_img.s # 1
       THEN b_img' = b_img /\ b_op' = [name |-> "bataineh", threw |-> TRUE, defaults |-> TRUE]
       ELSE /\ \E branch \in PrimaryBranches(b_img) :
                  b_img' \in BatainehOutputs(b_img, branch)
            /\ b_op' = [name |-> "bataineh", threw |-> FALSE, defaults |-> TRUE]
    /\ UNCHANGED binOthers

\* The call has returned: its result is the input of whatever is called next.
BinReturn ==
    /\ b_op # NoBinOp
    /\ b_op' = NoBinOp
    /\ b_prev' = b_img
    /\ UNCHANGED <<b_img, binOthers>>

BinNext == Otsu \/ Sauvola \/ Bataineh \/ BinReturn

SpecBin == BinInit /\ [][BinNext]_vars

(***************************************************************************)
(* Claims about binarization, checked under SpecBin                        *)
(***************************************************************************)

\* C1: after binarize_otsu, binarize_sauvola or binarize_bataineh has been
\* called on a single-channel raster with samples in 0..255, the call has
\* returned without an error, every sample is 0 or 255, and the raster has
\* the width and height it had and one channel.
C1_BinarizersGiveBinary ==
    (b_op.name \in {"otsu", "sauvola", "bataineh"} /\ b_prev.s = 1) =>
        /\ ~b_op.threw
        /\ IsBinary(b_img)
        /\ SameShape(b_img, b_prev)
        /\ b_img.s = 1

\* Sauvola has turned a 2 x 2 raster holding a grey sample into one holding
\* both 0 and 255.
C1_Witness ==
    /\ b_op.name = "sauvola"
    /\ b_prev.w = 2 /\ b_prev.h = 2 /\ b_prev.s = 1
    /\ \E a \in Pixels(2, 2) : Px(b_prev, a[1], a[2]) = 100
    /\ \E a \in Pixels(2, 2) : Px(b_img, a[1], a[2]) = 0
    /\ \E a \in Pixels(2, 2) : Px(b_img, a[1], a[2]) = 255

\* C14: a binarizer called on a single-channel raster of 0 / 255 samples
\* (binarize_sauvola with its default parameters) returns the raster it was
\* given.
C14_BinaryFixedPoint ==
    (/\ b_op.name \in {"otsu", "sauvola", "bataineh"}
     /\ b_op.defaults
     /\ b_prev.s = 1
     /\ IsBinary(b_prev)) => b_img = b_prev

\* C21: binarize_otsu, binarize_sauvola and binarize_bataineh called on a
\* raster whose channel count is not 1 raise an error and leave the raster
\* as it was.
C21_WrongChannelCountRejected ==
    (b_op.name \in {"otsu", "sauvola", "bataineh"} /\ b_prev.s # 1) =>
        /\ b_op.threw
        /\ b_img = b_prev

\* binarize_otsu has been called on a three-channel raster holding a sample
\* that is neither 0 nor 255, and has thrown.
C21_Witness ==
    /\ b_op.name = "otsu"
    /\ b_op.threw
    /\ b_prev.s = 3
    /\ b_prev.px[0][0][0] = 100

(***************************************************************************)
(* binarize_bataineh, second pass: the counting of black and red pixels    *)
(* in the primary window (src/src/lib/binarization/binarization.cpp)       *)
(***************************************************************************)

\* w_pixel_value <= T_con - offset and w_pixel_value < T_con + offset.  The
\* two bounds are kept doubled, as integers: cut.lo stands for
\* 2 * (T_con - offset) and cut.hi for 2 * (T_con + offset); with cut.nan
\* (T_con is NaN) both comparisons are false.
IsBlack(v, cut) == ~cut.nan /\ 2 * v <= cut.lo
IsRed(v, cut) == ~cut.nan /\ ~IsBlack(v, cut) /\ 2 * v < cut.hi

\* The bounds a raster can have.  std_dev = 0 on a uniform raster: T_con is
\* the mean and offset is 0 (every sample is black), but for a raster of
\* zeros T_con is 0/0.  Otherwise T_con and offset are doubles not followed
\* here, offset > 0, and every pair of bounds that separates the samples
\* differently is taken as possible.
ConfusionCuts(img) ==
    LET vals == SampleSet(img)
        points == {2 * v - 1 : v \in vals} \cup {2 * v + 1 : v \in vals}
    IN  IF vals = {0} THEN {[nan |-> TRUE, lo |-> 0, hi |-> 0]}
        ELSE IF Cardinality(vals) = 1
        THEN {[nan |-> FALSE, lo |-> 2 * v, hi |-> 2 * v] : v \in vals}
        ELSE {[nan |-> FALSE, lo |-> c[1], hi |-> c[2]] :
                 c \in {c \in points \X points : c[1] < c[2]}}

\* The pixels (j, i) the loops for (i = y1; i < y2; ++i) and
\* for (j = x1; j < x2; ++j) visit.
CountedCells(win) == (win.x1 .. win.x2 - 1) \X (win.y1 .. win.y2 - 1)

\* n_w_black and n_w_red at pixel (x, y).
WindowCounts(img, cut, x, y, hx, hy) ==
    LET win == ClampedWindow(img, x, y, hx, hy)
    IN  [x |-> x, y |-> y,
         n_w_black |-> Cardinality({a \in CountedCells(win) :
                                       IsBlack(Px(img, a[1], a[2]), cut)}),
         n_w_red |-> Cardinality({a \in CountedCells(win) :
                                     IsRed(Px(img, a[1], a[2]), cut)})]

(***************************************************************************)
(* SpecCount: the second pass of binarize_bataineh over one raster, pixel  *)
(* by pixel in raster order, up to the counting.                           *)
(***************************************************************************)
MaxCountPixels == 3
WideWidth == 12
WideHeight == 8
CountLevels == {0, 100, 255}

\* Every one-row raster of at most MaxCountPixels pixels.
CountSmall ==
    UNION {{MkImg(n, 1, p) : p \in Planes(n, 1, CountLevels)} : n \in 1 .. MaxCountPixels}

\* Rasters wide and tall enough for a primary window of 3 x 3 pixels: columns
\* of 0, then columns of 100, then columns of 255.
CountWide ==
    {MkImg(WideWidth, WideHeight,
           [y \in 0 .. WideHeight - 1 |-> [x \in 0 .. WideWidth - 1 |->
               IF x < c[1] THEN 0 ELSE IF x < c[1] + c[2] THEN 100 ELSE 255]]) :
        c \in {<<0, 0>>, <<0, WideWidth>>, <<1, 1>>, <<2, 0>>, <<0, 3>>}}

CountInit ==
    /\ n_img \in CountSmall \cup CountWide
    /\ n_cut \in ConfusionCuts(n_img)
    /\ \E branch \in PrimaryBranches(n_img) :
          n_half = <<PrimaryHalf(n_img.w, PrimaryDivisors(branch)[1]),
                     PrimaryHalf(n_img.h, PrimaryDivisors(branch)[2])>>
    /\ n_next = 0
    /\ n_last = <<>>
    /\ MorphIdle /\ IntIdle /\ EnhIdle /\ AmfIdle /\ AgIdle /\ BinIdle /\ CtIdle /\ CpIdle /\ OtIdle /\ DkIdle /\ LuIdle /\ CliIdle /\ DqIdle /\ HxIdle /\ SrIdle /\ MdIdle

\* One iteration of the loop over (y, x) of the second pass, up to
\* use_sub_window.
CountPixel ==
    /\ n_img # NoImg
    /\ n_next < n_img.w * n_img.h
    /\ n_last' = WindowCounts(n_img, n_cut, n_next % n_img.w, n_next \div n_img.w,
                              n_half[1], n_half[2])
    /\ n_next' = n_next + 1
    /\ UNCHANGED <<n_img, n_cut, n_half, bcOthers>>

CountNext == CountPixel

SpecCount == CountInit /\ [][CountNext]_vars

(***************************************************************************)
(* Claims about the window counting, checked under SpecCount               *)
(***************************************************************************)

\* C19: the black and red counts of a pixel are the numbers of black-class
\* and red-class pixels of its whole clamped primary window [x1..x2] x
\* [y1..y2].
C19_CountsCoverWindow ==
    n_last # <<>> =>
        LET win == ClampedWindow(n_img, n_last.x, n_last.y, n_half[1], n_half[2])
            whole == (win.x1 .. win.x2) \X (win.y1 .. win.y2)
        IN  /\ n_last.n_w_black =
                  Cardinality({a \in whole : IsBlack(Px(n_img, a[1], a[2]), n_cut)})
            /\ n_last.n_w_red =
                  Cardinality({a \in whole : IsRed(Px(n_img, a[1], a[2]), n_cut)})

(***************************************************************************)
(* SpecOtsu: one call of compute_otsu_threshold.                           *)
(***************************************************************************)
MaxOtsuPixels == 5
OtsuLevels == {0, 1, 2, 3}

\* The empty raster and every one-row raster of at most MaxOtsuPixels pixels.
OtsuRasters ==
    {NoImg} \cup UNION {{MkImg(n, 1, p) : p \in Planes(n, 1, OtsuLevels)} :
                           n \in 1 .. MaxOtsuPixels}

OtsuInit ==
    /\ o_img \in OtsuRasters
    /\ o_t = 0
    /\ o_pc = "call"
    /\ MorphIdle /\ IntIdle /\ EnhIdle /\ AmfIdle /\ AgIdle /\ BinIdle /\ CtIdle /\ CpIdle /\ BcIdle /\ DkIdle /\ LuIdle /\ CliIdle /\ DqIdle /\ HxIdle /\ SrIdle /\ MdIdle

OtsuThreshold ==
    /\ o_pc = "call"
    /\ o_t' = compute_otsu_threshold(o_img)
    /\ o_pc' = "returned"
    /\ UNCHANGED <<o_img, otOthers>>

OtsuNext == OtsuThreshold

SpecOtsu == OtsuInit /\ [][OtsuNext]_vars

(***************************************************************************)
(* Claims about compute_otsu_threshold, checked under SpecOtsu             *)
(***************************************************************************)

\* n1 / d1 > n2 / d2 for positive d1, d2.
FracGT(n1, d1, n2, d2) == n1 * d2 > n2 * d1

\* The classes of threshold t: the samples <= t and the samples > t.
ClassB(img, t) == {a \in Pixels(img.w, img.h) : Px(img, a[1], a[2]) <= t}
ClassF(img, t) == {a \in Pixels(img.w, img.h) : Px(img, a[1], a[2]) > t}

\* The thresholds for which both classes are non-empty.
Splitting(img) == {t \in 0 .. 255 : ClassB(img, t) # {} /\ ClassF(img, t) # {}}

\* The between-class variance w_b * w_f * (m_b - m_f)^2 of threshold t, as
\* the fraction (sum_b * w_f - sum_f * w_b)^2 / (w_b * w_f).
Between(img, t) ==
    LET w_b == Cardinality(ClassB(img, t))
        w_f == Cardinality(ClassF(img, t))
        dev == SumCells(img.px[0], ClassB(img, t)) * w_f
               - SumCells(img.px[0], ClassF(img, t)) * w_b
    IN  [num |-> dev * dev, den |-> w_b * w_f]

\* C18: compute_otsu_threshold returns the lowest of the thresholds that
\* maximise the between-class variance among those with two non-empty
\* classes, and 128 when there is none.
C18_OtsuLowestMaximiser ==
    o_pc = "returned" =>
        IF o_img = NoImg \/ Splitting(o_img) = {} THEN o_t = 128
        ELSE /\ o_t \in Splitting(o_img)
             /\ \A u \in Splitting(o_img) :
                   LET mine == Between(o_img, o_t)
                       other == Between(o_img, u)
                   IN  /\ ~FracGT(other.num, other.den, mine.num, mine.den)
                       /\ u < o_t => FracGT(mine.num, mine.den, other.num, other.den)

(***************************************************************************)
(* Contrast stretch (src/src/lib/color/contrast.cpp)                       *)
(***************************************************************************)

\* const float scale = 255.0f / (max_val - min_val): the single-precision
\* quotient, rounded to nearest even, as [m, e] with scale = m * 2^(e - 23)
\* and 2^23 <= m < 2^24.
FloatScale(range) ==
    LET e == Log2(255 \div range)
        num == 255 * Pow2(23 - e)
        q == num \div range
        rem == num % range
        m == IF 2 * rem > range \/ (2 * rem = range /\ q % 2 = 1) THEN q + 1 ELSE q
    IN  IF m = Pow2(24) THEN [m |-> Pow2(23), e |-> e + 1] ELSE [m |-> m, e |-> e]

\* static_cast<uint8_t>((i - min_val) * scale) for diff = i - min_val with
\* 0 < diff < range: the single-precision product diff * scale, rounded to
\* nearest even, then truncated.  diff * m is 4096 * hi + lo; below is the
\* integer part of the exact product and gap * 2^(e - 23) what the exact
\* product lacks to the next integer, which the rounding of the product
\* closes when it is at most half the spacing of the floats there.
LutTruncated(diff, range) ==
    LET sc == FloatScale(range)
        shift == Pow2(11 - sc.e)
        hi == diff * (sc.m \div 4096) + (diff * (sc.m % 4096)) \div 4096
        lo == (diff * (sc.m % 4096)) % 4096
        below == hi \div shift
        gap == 4096 * ((below + 1) * shift - hi) - lo
        half == Log2(below) - sc.e - 1
    IN  IF half >= 0 /\ gap <= Pow2(half) THEN below + 1 ELSE below

\* hist[val]++ over every sample, val = std::min(255u, data_ptr[i]); the
\* per-thread histograms are summed bin by bin inside the critical section,
\* which gives the same bins for every split of the samples.
StretchHist(img) ==
    Eval([v \in 0 .. 255 |->
        Cardinality({q \in (DOMAIN img.px) \X (0 .. img.h - 1) \X (0 .. img.w - 1) :
                        Min2(255, img.px[q[1]][q[2]][q[3]]) = v})])

\* The percentile loops: count += hist[i]; if (count > cutoff) { val = i;
\* break; }.  count changes at non-empty bins only, so the loop is followed
\* over the non-empty bins still ahead, upwards (low) or downwards.
RECURSIVE PercentileScan(_, _, _, _, _, _)
PercentileScan(hist, ahead, count, cutoff, low, default) ==
    IF ahead = {} THEN default
    ELSE LET i == IF low THEN SetMin(ahead) ELSE SetMax(ahead)
         IN  IF count + hist[i] > cutoff THEN i
             ELSE PercentileScan(hist, ahead \ {i}, count + hist[i], cutoff, low, default)

\* min_val and max_val of contrast_linear_stretch; N = input_image.size().
StretchBounds(img) ==
    LET hist == StretchHist(img)
        used == {v \in 0 .. 255 : hist[v] # 0}
        cutoff == (img.w * img.h * img.s) \div 100
    IN  [min_val |-> PercentileScan(hist, used, 0, cutoff, TRUE, 0),
         max_val |-> PercentileScan(hist, used, 0, cutoff, FALSE, 255)]

\* A plausible slip: the two ends of the table left as they are.
LutEntryOpenEnds(i, min_val, max_val) ==
    IF i <= min_val THEN i
    ELSE IF i >= max_val THEN i
    ELSE LutTruncated(i - min_val, max_val - min_val)

\* lut[i]
LutEntry(i, min_val, max_val) ==
    IF i <= min_val THEN 0
    ELSE IF i >= max_val THEN 255
    ELSE LutTruncated(i - min_val, max_val - min_val)

\* contrast_linear_stretch(input_image): the raster afterwards.
contrast_linear_stretch(img) ==
    IF img.w * img.h * img.s = 0 THEN img
    ELSE LET b == StretchBounds(img)
         IN  IF b.max_val <= b.min_val THEN img
             ELSE [img EXCEPT !.px = [c \in DOMAIN img.px |->
                     [y \in 0 .. img.h - 1 |-> [x \in 0 .. img.w - 1 |->
                         LutEntry(Min2(255, img.px[c][y][x]), b.min_val, b.max_val)]]]]

(***************************************************************************)
(* SpecContrast: contrast_linear_stretch called on one raster, and called  *)
(* again on its own result.                                                *)
(***************************************************************************)
MaxContrastPixels == 3
MaxStretchCalls == 2
BulkPixels == 200
MaxOutliers == 3
ContrastLevels == {0, 1, 2, 79, 237, 255}

\* Every one-row raster of at most MaxContrastPixels pixels, every sample free.
ContrastSmall ==
    UNION {{MkImg(n, 1, p) : p \in Planes(n, 1, ContrastLevels)} :
              n \in 1 .. MaxContrastPixels}

\* One-row rasters of BulkPixels pixels: lo samples of 0, then hi samples of
\* 255, the rest 100 and 150 in equal parts (the 1% cutoff is at 2 samples).
ContrastBulk ==
    {MkImg(BulkPixels, 1,
           [y \in {0} |-> [x \in 0 .. BulkPixels - 1 |->
               IF x < n[1] THEN 0
               ELSE IF x < n[1] + n[2] THEN 255
               ELSE IF x < BulkPixels \div 2 THEN 100 ELSE 150]]) :
        n \in (0 .. MaxOutliers) \X (0 .. MaxOutliers)}

ContrastInit ==
    /\ c_first \in ContrastSmall \cup ContrastBulk \cup {NoImg}
    /\ c_prev = c_first
    /\ c_img = c_first
    /\ c_calls = 0
    /\ MorphIdle /\ IntIdle /\ EnhIdle /\ AmfIdle /\ AgIdle /\ BinIdle /\ CpIdle /\ OtIdle /\ BcIdle /\ DkIdle /\ LuIdle /\ CliIdle /\ DqIdle /\ HxIdle /\ SrIdle /\ MdIdle

Stretch ==
    /\ c_calls < MaxStretchCalls
    /\ c_prev' = c_img
    /\ c_img' = contrast_linear_stretch(c_img)
    /\ c_calls' = c_calls + 1
    /\ UNCHANGED <<c_first, ctOthers>>

ContrastNext == Stretch

SpecContrast == ContrastInit /\ [][ContrastNext]_vars

(***************************************************************************)
(* Claims about the contrast stretch, checked under SpecContrast           *)
(***************************************************************************)

\* The number of samples of img that are at most v / at least v.
CountLE(img, v) == Cardinality({q \in (0 .. img.h - 1) \X (0 .. img.w - 1) :
                                   img.px[0][q[1]][q[2]] <= v})
CountGE(img, v) == Cardinality({q \in (0 .. img.h - 1) \X (0 .. img.w - 1) :
                                   img.px[0][q[1]][q[2]] >= v})

\* p1 / p99: the lowest / highest intensity whose cumulative count from its
\* end of the histogram exceeds 1% of the pixel count.
P1(img) == SetMin({v \in SampleSet(img) : 100 * CountLE(img, v) > img.w * img.h})
P99(img) == SetMax({v \in SampleSet(img) : 100 * CountGE(img, v) > img.w * img.h})

\* round(255 * (i - p1) / (p99 - p1)), to the nearest integer.
RoundedStretch(i, p1, p99) == (2 * 255 * (i - p1) + (p99 - p1)) \div (2 * (p99 - p1))

\* C12: when p99 > p1, the stretch sends every sample i <= p1 to 0, every
\* i >= p99 to 255 and every other i to round(255 * (i - p1) / (p99 - p1)).
C12_StretchRounds ==
    (c_calls = 1 /\ c_first # NoImg /\ P99(c_first) > P1(c_first)) =>
        \A x \in 0 .. c_first.w - 1 :
            LET i == c_first.px[0][0][x]
                p1 == P1(c_first)
                p99 == P99(c_first)
            IN  c_img.px[0][0][x] =
                    IF i <= p1 THEN 0
                    ELSE IF i >= p99 THEN 255
                    ELSE RoundedStretch(i, p1, p99)

\* C13: a second contrast_linear_stretch changes no sample of the result of
\* the first by more than 1, and changes nothing when the first changed
\* nothing.
C13_StretchIdempotent ==
    c_calls = 2 =>
        /\ SameShape(c_img, c_prev)
        /\ c_prev # NoImg =>
              \A x \in 0 .. c_prev.w - 1 :
                  /\ c_img.px[0][0][x] - c_prev.px[0][0][x] <= 1
                  /\ c_prev.px[0][0][x] - c_img.px[0][0][x] <= 1
        /\ c_prev = c_first => c_img = c_prev

\* The first call stretched a raster with a sample strictly between p1 and
\* p99 and the second call has been made.
C13_Witness ==
    /\ c_calls = 2
    /\ c_prev # c_first
    /\ \E x \in 0 .. c_first.w - 1 :
          /\ c_first.px[0][0][x] > P1(c_first)
          /\ c_first.px[0][0][x] < P99(c_first)

(***************************************************************************)
(* Colour pass (src/src/lib/color/color.cpp)                               *)
(***************************************************************************)

\* CImg::is_empty()
is_empty(img) == img.w * img.h * img.s = 0

\* A plausible slip: the pixels under a black mask sample are whitened.
MaskedOnBlack(mask, x, y) == mask.px[0][y][x] = 0

\* if (bin_image(x, y, z) == 255)
Masked(mask, x, y) == mask.px[0][y][x] = 255

\* The loop over y and x: channels 0, 1 and 2 of the masked pixels are set
\* to 255.
Whitened(color, mask) ==
    [color EXCEPT !.px = [c \in DOMAIN color.px |->
        [y \in 0 .. color.h - 1 |-> [x \in 0 .. color.w - 1 |->
            IF c \in {0, 1, 2} /\ Masked(mask, x, y) THEN 255
            ELSE color.px[c][y][x]]]]]

\* A plausible slip: the comparison of the widths and heights left out, the
\* loop running over the part the two rasters share.
color_pass_unchecked_size(color, mask) ==
    IF is_empty(mask) \/ is_empty(color) THEN [img |-> color, threw |-> FALSE]
    ELSE IF mask.s # 1 THEN [img |-> color, threw |-> TRUE]
    ELSE IF color.s # 3 THEN [img |-> color, threw |-> TRUE]
    ELSE [img |-> [color EXCEPT !.px = [c \in DOMAIN color.px |->
                     [y \in 0 .. color.h - 1 |-> [x \in 0 .. color.w - 1 |->
                         IF y < mask.h /\ x < mask.w /\ Masked(mask, x, y) THEN 255
                         ELSE color.px[c][y][x]]]]],
          threw |-> FALSE]

\* color_pass_inplace(color_image, bin_image): [img, threw].
color_pass_inplace(color, mask) ==
    IF is_empty(mask) \/ is_empty(color) THEN [img |-> color, threw |-> FALSE]
    ELSE IF mask.s # 1 THEN [img |-> color, threw |-> TRUE]
    ELSE IF color.s # 3 THEN [img |-> color, threw |-> TRUE]
    ELSE IF color.w # mask.w \/ color.h # mask.h THEN [img |-> color, threw |-> TRUE]
    ELSE [img |-> Whitened(color, mask), threw |-> FALSE]

(***************************************************************************)
(* SpecColourPass: one call of color_pass_inplace.                         *)
(***************************************************************************)
MaxPassPixels == 2
Alpha == 200
Palette == {<<10, 20, 30, Alpha>>, <<255, 255, 255, Alpha>>, <<255, 0, 10, Alpha>>}
MaskLevels == {0, 128, 255}
ColourChannels == {1, 3, 4}

PassShapes == {d \in (1 .. MaxPassPixels) \X (1 .. MaxPassPixels) : d[1] * d[2] <= MaxPassPixels}

\* Rasters of s channels, every pixel a colour of the palette cut to s channels.
ColourRasters ==
    UNION {{[w |-> d[1], h |-> d[2], s |-> s,
             px |-> [c \in 0 .. s - 1 |-> [y \in 0 .. d[2] - 1 |->
                        [x \in 0 .. d[1] - 1 |-> q[y][x][c + 1]]]]] :
               q \in Planes(d[1], d[2], Palette)} :
           d \in PassShapes, s \in ColourChannels}

\* Single-channel masks of every shape, and three-channel masks of one level.
MaskRasters ==
    UNION {{MkImg(d[1], d[2], p) : p \in Planes(d[1], d[2], MaskLevels)} : d \in PassShapes}
    \cup {[w |-> d[1], h |-> d[2], s |-> 3,
           px |-> [c \in 0 .. 2 |-> [y \in 0 .. d[2] - 1 |-> [x \in 0 .. d[1] - 1 |-> v]]]] :
             d \in PassShapes, v \in MaskLevels}

PassInit ==
    /\ p_in \in ColourRasters \cup {NoImg}
    /\ p_color = p_in
    /\ p_mask \in MaskRasters \cup {NoImg}
    /\ p_pc = "call"
    /\ MorphIdle /\ IntIdle /\ EnhIdle /\ AmfIdle /\ AgIdle /\ BinIdle /\ CtIdle /\ OtIdle /\ BcIdle /\ DkIdle /\ LuIdle /\ CliIdle /\ DqIdle /\ HxIdle /\ SrIdle /\ MdIdle

ColourPass ==
    /\ p_pc = "call"
    /\ LET res == color_pass_inplace(p_color, p_mask) IN
        /\ p_color' = res.img
        /\ p_pc' = IF res.threw THEN "threw" ELSE "returned"
    /\ UNCHANGED <<p_in, p_mask, cpOthers>>

PassNext == ColourPass

SpecColourPass == PassInit /\ [][PassNext]_vars

(***************************************************************************)
(* Claims about the colour pass, checked under SpecColourPass              *)
(***************************************************************************)

\* Both rasters are non-empty and satisfy what the code checks.
PassAccepted ==
    /\ ~is_empty(p_in) /\ ~is_empty(p_mask)
    /\ p_mask.s = 1 /\ p_in.s = 3
    /\ p_in.w = p_mask.w /\ p_in.h = p_mask.h

\* C15: on a three-channel raster and a single-channel mask of its width and
\* height, colour_pass returns normally; the pixels whose mask sample is 255
\* have R = G = B = 255 and every channel of every other pixel is as it was.
C15_MaskedPixelsWhitened ==
    (p_pc # "call" /\ PassAccepted) =>
        /\ p_pc = "returned"
        /\ SameShape(p_color, p_in)
        /\ \A y \in 0 .. p_in.h - 1 : \A x \in 0 .. p_in.w - 1 : \A c \in 0 .. 2 :
              p_color.px[c][y][x] = IF p_mask.px[0][y][x] = 255 THEN 255
                                    ELSE p_in.px[c][y][x]

\* A call has whitened one pixel of a two-pixel raster and left the other,
\* which is not white, as it was.
C15_Witness ==
    /\ p_pc = "returned" /\ PassAccepted
    /\ p_in.w * p_in.h = 2
    /\ p_color # p_in
    /\ \E y \in 0 .. p_in.h - 1 : \E x \in 0 .. p_in.w - 1 :
          /\ p_mask.px[0][y][x] # 255
          /\ p_color.px[0][y][x] = 10

\* C16: with both rasters non-empty, a mask that is not single-channel, a
\* colour raster that does not have three channels, or a difference in width
\* or height makes colour_pass throw and leave the colour raster as it was;
\* with an empty raster it returns normally and changes nothing.
C16_RejectsWithoutChange ==
    p_pc # "call" =>
        /\ (is_empty(p_in) \/ is_empty(p_mask)) => (p_pc = "returned" /\ p_color = p_in)
        /\ (/\ ~is_empty(p_in) /\ ~is_empty(p_mask)
            /\ \/ p_mask.s # 1
               \/ p_in.s # 3
               \/ p_in.w # p_mask.w
               \/ p_in.h # p_mask.h) => (p_pc = "threw" /\ p_color = p_in)

\* A call with a single-channel mask all of 255 and a three-channel raster of
\* another width has thrown.
C16_Witness ==
    /\ p_pc = "threw"
    /\ p_mask.s = 1 /\ p_in.s = 3
    /\ p_in.w # p_mask.w
    /\ \A y \in 0 .. p_mask.h - 1 : \A x \in 0 .. p_mask.w - 1 : p_mask.px[0][y][x] = 255

\* C17: on a four-channel raster and a single-channel mask of its width and
\* height, colour_pass returns normally with R = G = B = 255 where the mask
\* is 255.
C17_FourChannelsAccepted ==
    (/\ p_pc # "call"
     /\ ~is_empty(p_in) /\ ~is_empty(p_mask)
     /\ p_in.s = 4 /\ p_mask.s = 1
     /\ p_in.w = p_mask.w /\ p_in.h = p_mask.h) =>
        /\ p_pc = "returned"
        /\ \A y \in 0 .. p_in.h - 1 : \A x \in 0 .. p_in.w - 1 : \A c \in 0 .. 2 :
              p_mask.px[0][y][x] = 255 => p_color.px[c][y][x] = 255

(***************************************************************************)
(* Deskew (src/src/lib/geometry/geometry.cpp)                              *)
(*                                                                         *)
(* deskew_projection_profile binarizes a copy of the raster, crops it to   *)
(* its foreground, scores rotations of the crop over three grids of angles *)
(* and rotates input_image by the best angle when the gate at the end      *)
(* lets it.  What the scoring finds (the score at 0 degrees, the grid      *)
(* index that wins each pass, the score of the last winner) depends on the *)
(* samples through the library's rotation and is drawn here from small     *)
(* sets; the angles of the grids and the gate are computed as the source   *)
(* computes them, in doubles.  A signed double is a record [neg, abs] with *)
(* abs a non-negative double.                                              *)
(***************************************************************************)

\* [q, sticky]: a divided k times by 1000, and whether a remainder was lost.
RECURSIVE BigDivThousands(_, _)
BigDivThousands(a, k) ==
    IF k = 0 THEN [q |-> a, sticky |-> FALSE]
    ELSE The({LET rest == BigDivThousands(res.q, k - 1)
              IN  [q |-> rest.q, sticky |-> rest.sticky \/ res.r # 0] :
                 res \in {BigDivSmall(a, 1000)}})

\* The double a decimal literal of value n / 1000^k denotes, for 0 < n < 2^16.
DoubleOfDecimal(n, k) ==
    The({RoundDouble(res.q, 0 - (64 + 10 * k), res.sticky) :
            res \in {BigDivThousands(BigShl(BigFromInt(n), 64 + 10 * k), k)}})

\* a + b for non-negative doubles
DoubleSum(a, b) ==
    The({LET e == Min2(x.e, y.e)
         IN  RoundDouble(BigAdd(BigShl(x.m, x.e - e), BigShl(y.m, y.e - e), 0), e, FALSE) :
            x \in {a}, y \in {b}})

Signed(neg, a) == [neg |-> neg, abs |-> a]

\* a + b for signed doubles
SignedSum(a, b) ==
    The({IF x.neg = y.neg THEN Signed(x.neg, DoubleSum(x.abs, y.abs))
         ELSE IF DoubleGT(y.abs, x.abs) THEN Signed(y.neg, DoubleAbsDiff(x.abs, y.abs))
         ELSE Signed(x.neg /\ DoubleGT(x.abs, y.abs), DoubleAbsDiff(x.abs, y.abs)) :
            x \in {a}, y \in {b}})

\* a - b for a signed double a and a non-negative double b
SignedLess(a, b) == SignedSum(a, Signed(TRUE, b))

\* a of search_best_angle: start_deg + static_cast<double>(i) * step_deg
GridAngle(start_deg, i, step_deg) ==
    SignedSum(start_deg, Signed(FALSE, DoubleMul(DoubleOfInt(i), step_deg)))

\* a3 of deskew_projection_profile when the passes are won at the grid
\* indices i1, i2 and i3.
SearchedAngle(i1, i2, i3) ==
    LET a1 == GridAngle(Signed(TRUE, DoubleOfInt(15)), i1, DoubleOfInt(1))
        a2 == The({GridAngle(start, i2, DoubleOfDecimal(200, 1)) :
                      start \in {SignedLess(a, DoubleOfInt(1)) : a \in {a1}}})
    IN  The({GridAngle(start, i3, DoubleOfDecimal(50, 1)) :
                start \in {SignedLess(a, DoubleOfDecimal(300, 1)) : a \in {a2}}})

\* margin of deskew_projection_profile, for sides below 25
CropMargin == 2

\* <<W, H>> of work, the crop of bin to the bounding box of its foreground.
WorkSize(in) ==
    LET minx == Max2(0, in.box.minx - CropMargin)
        miny == Max2(0, in.box.miny - CropMargin)
        maxx == Min2(in.inW - 1, in.box.maxx + CropMargin)
        maxy == Min2(in.inH - 1, in.box.maxy + CropMargin)
    IN  <<maxx - minx + 1, maxy - miny + 1>>

\* Whether deskew_projection_profile gets as far as the search.
Searches(in) ==
    /\ ~(in.inW <= 1 \/ in.inH <= 1)
    /\ in.box # <<>>
    /\ ~(WorkSize(in)[1] <= 8 \/ WorkSize(in)[2] <= 8)

\* angle_ok of deskew_projection_profile
angle_ok(best_angle) == DoubleGT(best_angle.abs, DoubleOfDecimal(50, 1))

\* improve_ok of deskew_projection_profile
improve_ok(base_score, best_score) ==
    /\ DoubleGT(best_score, DoubleSum(base_score, DoubleOfDecimal(1, 3)))
    /\ IF ~DoubleGT(base_score, DoubleOfInt(0)) THEN TRUE
       ELSE ~DoubleGT(DoubleMul(base_score, DoubleOfDecimal(1002, 1)), best_score)

\* deskew_projection_profile on a raster of at most 600 by 600 samples, as
\* [search, out]: found is [base_score, i1, i2, i3, best_score], what the
\* scoring finds if it is reached.
deskew_projection_profile(in, found) ==
    IF ~Searches(in)
    THEN [search |-> <<>>, out |-> [rotated |-> FALSE, angle |-> <<>>]]
    ELSE LET base_score == DoubleOfInt(found.base_score)
             best_score == DoubleOfInt(found.best_score)
         IN  The({LET rotates == angle_ok(best_angle) /\ improve_ok(base_score, best_score)
                  IN  [search |-> [base_score |-> base_score, best_score |-> best_score,
                                   best_angle |-> best_angle],
                       out |-> [rotated |-> rotates,
                                angle |-> IF rotates THEN best_angle ELSE <<>>]] :
                     best_angle \in {SearchedAngle(found.i1, found.i2, found.i3)}})

(***************************************************************************)
(* SpecDeskew: one call of deskew_projection_profile.                      *)
(***************************************************************************)
DeskewSides == {1, 9, 20}
CoarseIndex == {14, 15, 17}
FineIndex == {4, 5, 6}
FinestIndex == {5, 6, 7, 11}
ScoreValues == {0, 1000, 1002, 1003, 1005, 1006}

\* Extents of the foreground along a side of n samples.
Spans(n) == {<<0, 0>>, <<n \div 2, n \div 2>>, <<0, n - 1>>}

DeskewInputs ==
    UNION {{[inW |-> w, inH |-> h, box |-> b] :
               b \in {<<>>} \cup {[minx |-> sx[1], maxx |-> sx[2],
                                   miny |-> sy[1], maxy |-> sy[2]] :
                                     sx \in Spans(w), sy \in Spans(h)}} :
           w \in DeskewSides, h \in DeskewSides}

DeskewFindings ==
    [base_score : ScoreValues, best_score : ScoreValues,
     i1 : CoarseIndex, i2 : FineIndex, i3 : FinestIndex]

DeskewInit ==
    /\ d_in \in DeskewInputs
    /\ d_search = <<>>
    /\ d_out = <<>>
    /\ d_pc = "call"
    /\ MorphIdle /\ IntIdle /\ EnhIdle /\ AmfIdle /\ AgIdle /\ BinIdle /\ CtIdle /\ CpIdle /\ OtIdle /\ BcIdle /\ LuIdle /\ CliIdle /\ DqIdle /\ HxIdle /\ SrIdle /\ MdIdle

Deskew ==
    /\ d_pc = "call"
    /\ \E found \in DeskewFindings :
          LET res == deskew_projection_profile(d_in, found)
          IN  /\ d_search' = res.search
              /\ d_out' = res.out
    /\ d_pc' = "returned"
    /\ UNCHANGED <<d_in, dkOthers>>

DeskewNext == Deskew

SpecDeskew == DeskewInit /\ [][DeskewNext]_vars

\* Whether a exceeds num / den times b, decided exactly.
ExceedsTimes(a, b, num, den) ==
    LET e == Min2(a.e, b.e)
    IN  BigCmp(BigShl(BigNorm(BigMulSmall(a.m, den, 0)), a.e - e),
               BigShl(BigNorm(BigMulSmall(b.m, num, 0)), b.e - e)) > 0

\* C20: input_image is rotated if and only if the search ran and its best
\* score exceeds 1.005 times the score at 0 degrees; a call that returns
\* early (no foreground among its cases) rotates nothing.
C20_RotatesIffScoreExceeds ==
    d_pc = "returned" =>
        (d_out.rotated <=>
            /\ d_search # <<>>
            /\ ExceedsTimes(d_search.best_score, d_search.base_score, 1005, 1000))

(***************************************************************************)
(* Grayscale conversion (src/src/lib/color/grayscale.cpp)                  *)
(*                                                                         *)
(* The weights are floats and the sum of the three products is formed in   *)
(* single precision: a non-negative float is a record [m, e] of value      *)
(* m * 2^e with m of at most 24 bits, every operation rounding to nearest, *)
(* ties to even.                                                           *)
(***************************************************************************)

\* The float nearest to (M + f) * 2^e, where 0 <= f < 1 and f > 0 iff sticky;
\* M has more than 24 bits whenever sticky.
RoundFloat(M, e, sticky) ==
    The({IF BitLen(v) <= 24 THEN [m |-> v, e |-> e]
         ELSE The({LET c == The({BigCmp(r, half) : r \in {BigSub(v, BigShl(q, s))},
                                                   half \in {BigShl(<<1>>, s - 1)}})
                       odd == q # <<>> /\ q[1] % 2 = 1
                       up == c > 0 \/ (c = 0 /\ (sticky \/ odd))
                   IN  [m |-> IF up THEN BigAdd(q, <<>>, 1) ELSE q, e |-> e + s] :
                      s \in {BitLen(v) - 24}, q \in {BigShr(v, BitLen(v) - 24)}}) :
            v \in {M}})

\* The float a literal of value n / 1000^k with the suffix f denotes, for
\* 0 < n < 2^16.
FloatOfDecimal(n, k) ==
    The({RoundFloat(res.q, 0 - (40 + 10 * k), res.sticky) :
            res \in {BigDivThousands(BigShl(BigFromInt(n), 40 + 10 * k), k)}})

\* The conversion of a uint below 2^24 to float.
FloatOfInt(n) == [m |-> BigFromInt(n), e |-> 0]

\* a * b in single precision
FloatMul(a, b) ==
    The({RoundFloat(BigMul(x.m, y.m), x.e + y.e, FALSE) : x \in {a}, y \in {b}})

\* a + b in single precision
FloatSum(a, b) ==
    The({LET e == Min2(x.e, y.e)
         IN  RoundFloat(BigAdd(BigShl(x.m, x.e - e), BigShl(y.m, y.e - e), 0), e, FALSE) :
            x \in {a}, y \in {b}})

\* The int a number of limbs holds, below 2^31.
RECURSIVE BigToInt(_)
BigToInt(a) == IF a = <<>> THEN 0 ELSE Head(a) + LimbBase * BigToInt(Tail(a))

\* static_cast<uint>(std::round(a)) for a float a >= 0 below 2^31: halves go
\* away from zero.
RoundToUint(a) ==
    The({IF x.e >= 0 THEN BigToInt(BigShl(x.m, x.e))
         ELSE BigToInt(BigShr(BigAdd(x.m, BigShl(<<1>>, 0 - x.e - 1), 0), 0 - x.e)) :
            x \in {a}})

\* WEIGHT_R, WEIGHT_G, WEIGHT_B of grayscale.h, in thousandths.
WEIGHT_R == 299
WEIGHT_G == 587
WEIGHT_B == 114

\* A plausible slip: the sum cast to uint without std::round.
LumaSampleTruncated(r, g, b) ==
    LET a == FloatSum(FloatSum(FloatMul(FloatOfDecimal(WEIGHT_R, 1), FloatOfInt(r)),
                               FloatMul(FloatOfDecimal(WEIGHT_G, 1), FloatOfInt(g))),
                      FloatMul(FloatOfDecimal(WEIGHT_B, 1), FloatOfInt(b)))
    IN  IF a.e >= 0 THEN BigToInt(BigShl(a.m, a.e)) ELSE BigToInt(BigShr(a.m, 0 - a.e))

\* static_cast<uint>(std::round(WEIGHT_R * r + WEIGHT_G * g + WEIGHT_B * b))
LumaSample(r, g, b) ==
    RoundToUint(FloatSum(FloatSum(FloatMul(FloatOfDecimal(WEIGHT_R, 1), FloatOfInt(r)),
                                  FloatMul(FloatOfDecimal(WEIGHT_G, 1), FloatOfInt(g))),
                         FloatMul(FloatOfDecimal(WEIGHT_B, 1), FloatOfInt(b))))

\* to_grayscale_rec601(input_image) on a raster of depth 1 with at least
\* three channels, or one.
to_grayscale_rec601(img) ==
    IF img.s = 1 THEN img
    ELSE MkImg(img.w, img.h,
               Eval([y \in 0 .. img.h - 1 |-> Eval([x \in 0 .. img.w - 1 |->
                   LumaSample(img.px[0][y][x], img.px[1][y][x], img.px[2][y][x])])]))

(***************************************************************************)
(* SpecLuma: one call of to_grayscale_rec601.                              *)
(***************************************************************************)
MaxLumaPixels == 2
\* Samples of one-pixel rasters; (4, 40, 16) has the luma 26.5 exactly.
LumaLevels == {0, 4, 16, 40, 128, 255}
\* Samples of the wider rasters.
LumaEnds == {0, 255}

LumaRasters ==
    {[w |-> 1, h |-> 1, s |-> 3, px |-> [c \in 0 .. 2 |-> p[c]]] :
        p \in [0 .. 2 -> Planes(1, 1, LumaLevels)]}
    \cup UNION {{[w |-> w, h |-> 1, s |-> 3, px |-> [c \in 0 .. 2 |-> p[c]]] :
                    p \in [0 .. 2 -> Planes(w, 1, LumaEnds)]} : w \in 2 .. MaxLumaPixels}
    \cup UNION {{MkImg(w, 1, p) : p \in Planes(w, 1, LumaLevels)} : w \in 1 .. MaxLumaPixels}

LumaInit ==
    /\ l_in \in LumaRasters
    /\ l_img = l_in
    /\ l_pc = "call"
    /\ MorphIdle /\ IntIdle /\ EnhIdle /\ AmfIdle /\ AgIdle /\ BinIdle /\ CtIdle /\ CpIdle /\ OtIdle /\ BcIdle /\ DkIdle /\ CliIdle /\ DqIdle /\ HxIdle /\ SrIdle /\ MdIdle

ToGrayscale ==
    /\ l_pc = "call"
    /\ l_img' = to_grayscale_rec601(l_img)
    /\ l_pc' = "returned"
    /\ UNCHANGED <<l_in, luOthers>>

LumaNext == ToGrayscale

SpecLuma == LumaInit /\ [][LumaNext]_vars

\* 1000 * (0.299 R + 0.587 G + 0.114 B) at (x, y) of a three-channel raster.
LumaThousandths(img, x, y) ==
    WEIGHT_R * img.px[0][y][x] + WEIGHT_G * img.px[1][y][x] + WEIGHT_B * img.px[2][y][x]

\* C22: to_grayscale_rec601 returns a single-channel raster as it is; of a
\* three-channel raster with samples in 0..255 it returns a single-channel
\* raster of the same width and height whose samples are in 0..255 and at
\* most 1/2 away from 0.299 R + 0.587 G + 0.114 B, so red gives 76, green 150
\* and a grey (v, v, v) gives v.
C22_LumaRoundedRec601 ==
    l_pc = "returned" =>
        /\ l_in.s = 1 => l_img = l_in
        /\ l_in.s = 3 =>
              /\ l_img.s = 1 /\ l_img.w = l_in.w /\ l_img.h = l_in.h
              /\ \A y \in 0 .. l_in.h - 1 : \A x \in 0 .. l_in.w - 1 :
                    LET out == l_img.px[0][y][x]
                        R == l_in.px[0][y][x]
                        G == l_in.px[1][y][x]
                        B == l_in.px[2][y][x]
                    IN  /\ out \in 0 .. 255
                        /\ Abs(1000 * out - LumaThousandths(l_in, x, y)) <= 500
                        /\ (R = 255 /\ G = 0 /\ B = 0) => out = 76
                        /\ (R = 0 /\ G = 255 /\ B = 0) => out = 150
                        /\ (R = G /\ G = B) => out = R

\* A three-channel raster of two pixels, red and green, has been converted
\* to the single-channel raster (76, 150).
C22_Witness ==
    /\ l_pc = "returned"
    /\ l_in.s = 3 /\ l_in.w = 2
    /\ l_in.px[0][0][0] = 255 /\ l_in.px[1][0][0] = 0 /\ l_in.px[2][0][0] = 0
    /\ l_in.px[0][0][1] = 0 /\ l_in.px[1][0][1] = 255 /\ l_in.px[2][0][1] = 0
    /\ l_img.s = 1 /\ l_img.px[0][0][0] = 76 /\ l_img.px[0][0][1] = 150

(***************************************************************************)
(* Command-line tool (src/src/cli.cpp, main)                               *)
(*                                                                         *)
(* The body of main after the options are parsed: load, warm-up runs,      *)
(* trials with the time limit looked at after each, write.  Every step may *)
(* throw; the log records what happened, in order.                         *)
(***************************************************************************)

\* The largest --trials and --warmup values, and the run times and time
\* limits, the model draws from.
MaxTrials == 3

MaxWarmup == 1

\* Milliseconds one enhance run may take on the steady clock.
RunMillis == {0, 30000, 60000, 90000}

\* --time-limit values in minutes; 0 is the default, no limit.
TimeLimits == {0, 1, 2}

CliArgs ==
    [trials : 1 .. MaxTrials, warmup : 0 .. MaxWarmup, time_limit_min : TimeLimits,
     measure_time : BOOLEAN]

\* A plausible slip: a run that ends exactly at the limit does not stop the loop.
LimitReachedStrict(time_limit_min, elapsed_ms) ==
    time_limit_min > 0 /\ elapsed_ms > time_limit_min * 60000

\* if (time_limit_min > 0 && elapsed_sec >= limit_seconds), with
\* limit_seconds = time_limit_min * 60.0 and elapsed_sec = elapsed_ms / 1000.0.
LimitReached(time_limit_min, elapsed_ms) ==
    time_limit_min > 0 /\ elapsed_ms >= time_limit_min * 60000

\* A plausible slip: the catch block falls through to return 0.
ExitCodeZero(caught) == 0

\* The value main returns: 1 from the catch block, 0 at its end.
ExitCode(caught) == IF caught THEN 1 ELSE 0

\* catch (const std::exception &e): the rest of the try block is skipped.
Caught(what) ==
    /\ k_pc' = "exited"
    /\ k_log' = Append(k_log, [ev |-> what, run |-> k_i + 1, at |-> k_elapsed])
    /\ k_out' = [exit |-> ExitCode(TRUE), reported |-> 0]

CliInit ==
    /\ k_args \in CliArgs
    /\ k_pc = "load"
    /\ k_i = 0 /\ k_elapsed = 0 /\ k_actual = 0 /\ k_result = 0
    /\ k_log = <<>> /\ k_file = 0 /\ k_out = <<>>
    /\ MorphIdle /\ IntIdle /\ EnhIdle /\ AmfIdle /\ AgIdle /\ BinIdle /\ CtIdle /\ CpIdle /\ OtIdle /\ BcIdle /\ DkIdle /\ LuIdle /\ DqIdle /\ HxIdle /\ SrIdle /\ MdIdle

\* auto img = ite::loadimage(input_path), then if (warmup > 0).
CliLoad ==
    /\ k_pc = "load"
    /\ k_pc' = IF k_args.warmup > 0 THEN "warmup" ELSE "trial"
    /\ UNCHANGED <<k_args, k_i, k_elapsed, k_actual, k_result, k_log, k_file, k_out, cliOthers>>

CliLoadFails ==
    /\ k_pc = "load"
    /\ Caught("load failed")
    /\ UNCHANGED <<k_args, k_i, k_elapsed, k_actual, k_result, k_file, cliOthers>>

\* One pass of the warm-up loop: the result of enhance is dropped.  The clock
\* of the benchmark starts after the loop.
CliWarmup ==
    /\ k_pc = "warmup"
    /\ k_i' = IF k_i + 1 < k_args.warmup THEN k_i + 1 ELSE 0
    /\ k_pc' = IF k_i + 1 < k_args.warmup THEN "warmup" ELSE "trial"
    /\ k_log' = Append(k_log, [ev |-> "warmed", run |-> k_i + 1, at |-> 0])
    /\ UNCHANGED <<k_args, k_elapsed, k_actual, k_result, k_file, k_out, cliOthers>>

CliWarmupFails ==
    /\ k_pc = "warmup"
    /\ Caught("warm-up failed")
    /\ UNCHANGED <<k_args, k_i, k_elapsed, k_actual, k_result, k_file, cliOthers>>

\* The head of the trial loop, i < trials, and the call of enhance.
CliTrialStart ==
    /\ k_pc = "trial"
    /\ k_i < k_args.trials
    /\ k_pc' = "running"
    /\ k_log' = Append(k_log, [ev |-> "start", run |-> k_i + 1, at |-> k_elapsed])
    /\ UNCHANGED <<k_args, k_i, k_elapsed, k_actual, k_result, k_file, k_out, cliOthers>>

\* enhance returns after ms milliseconds: result is assigned and
\* actual_trials counted.
CliTrialEnd ==
    /\ k_pc = "running"
    /\ \E ms \in RunMillis :
          /\ k_elapsed' = k_elapsed + ms
          /\ k_log' = Append(k_log, [ev |-> "end", run |-> k_i + 1, at |-> k_elapsed + ms])
    /\ k_result' = k_i + 1
    /\ k_actual' = k_actual + 1
    /\ k_pc' = "check"
    /\ UNCHANGED <<k_args, k_i, k_file, k_out, cliOthers>>

CliTrialFails ==
    /\ k_pc = "running"
    /\ Caught("trial failed")
    /\ UNCHANGED <<k_args, k_i, k_elapsed, k_actual, k_result, k_file, cliOthers>>

\* The time limit check after a run: break, or ++i and the loop head.
CliTimeCheck ==
    /\ k_pc = "check"
    /\ LET reached == LimitReached(k_args.time_limit_min, k_elapsed)
       IN  /\ k_log' = Append(k_log, [ev |-> IF reached THEN "break" ELSE "next",
                                      run |-> k_i + 1, at |-> k_elapsed])
           /\ k_i' = IF reached THEN k_i ELSE k_i + 1
           /\ k_pc' = IF reached \/ k_i + 1 >= k_args.trials THEN "write" ELSE "trial"
    /\ UNCHANGED <<k_args, k_elapsed, k_actual, k_result, k_file, k_out, cliOthers>>

\* ite::writeimage(result, output_path), the table of the benchmark, return 0.
CliWrite ==
    /\ k_pc = "write"
    /\ k_file' = k_result
    /\ k_log' = Append(k_log, [ev |-> "write", run |-> k_result, at |-> k_elapsed])
    /\ k_out' = [exit |-> ExitCode(FALSE),
                 reported |-> IF k_args.measure_time THEN k_actual ELSE 0]
    /\ k_pc' = "exited"
    /\ UNCHANGED <<k_args, k_i, k_elapsed, k_actual, k_result, cliOthers>>

\* image.save throws: what it left at output_path is not known.
CliWriteFails ==
    /\ k_pc = "write"
    /\ k_file' \in {0, -1}
    /\ Caught("write failed")
    /\ UNCHANGED <<k_args, k_i, k_elapsed, k_actual, k_result, cliOthers>>

CliNext ==
    \/ CliLoad
    \/ CliLoadFails
    \/ CliWarmup
    \/ CliWarmupFails
    \/ CliTrialStart
    \/ CliTrialEnd
    \/ CliTrialFails
    \/ CliTimeCheck
    \/ CliWrite
    \/ CliWriteFails

SpecCli == CliInit /\ [][CliNext]_vars

\* The events of the log of one kind.
LogEvents(kind) == {n \in DOMAIN k_log : k_log[n].ev = kind}

\* C23: when the load or any enhance run, warm-up or trial, fails, the tool
\* exits with code 1 and no output file is written; and an output file exists
\* only when none of them failed and every trial that started has ended.
C23_FailureExitsOneWithoutOutput ==
    LET failures == LogEvents("load failed") \cup LogEvents("warm-up failed")
                        \cup LogEvents("trial failed")
    IN  /\ failures # {} =>
              /\ k_pc = "exited"
              /\ k_out.exit = 1
              /\ k_file = 0
              /\ LogEvents("write") = {}
        /\ k_file # 0 =>
              /\ failures = {}
              /\ \A n \in LogEvents("start") :
                    \E m \in LogEvents("end") : m > n /\ k_log[m].run = k_log[n].run

\* The second of two trials has failed after the first one ended: the tool
\* has exited with code 1 and there is no file.
C23_Witness ==
    /\ k_pc = "exited"
    /\ k_args.trials = 2
    /\ LogEvents("end") # {}
    /\ LogEvents("trial failed") # {}
    /\ k_out.exit = 1
    /\ k_file = 0

\* C24: for trials >= 1 and every time limit, at least one and at most trials
\* runs of enhance complete; the limit is looked at only between runs, each
\* look directly after the end of a run; no run starts once the limit has been
\* reached at such a look; and the image written and the count reported are
\* those of the last completed run.
C24_TimeLimitBetweenRuns ==
    LET ends == LogEvents("end")
        looks == LogEvents("break") \cup LogEvents("next")
        limit == k_args.time_limit_min * 60000
    IN  /\ Cardinality(ends) <= k_args.trials
        /\ k_actual = Cardinality(ends)
        /\ \A n \in looks : n - 1 \in ends /\ k_log[n - 1].run = k_log[n].run
        /\ \A n \in LogEvents("start") :
              /\ k_log[n].run = Cardinality({m \in ends : m < n}) + 1
              /\ \A m \in ends : m < n =>
                    ~ (k_args.time_limit_min > 0 /\ k_log[m].at >= limit)
        /\ \A n \in LogEvents("write") :
              /\ ends # {}
              /\ k_log[n].run = Cardinality(ends)
              /\ k_file = Cardinality(ends)
              /\ k_args.measure_time => k_out.reported = Cardinality(ends)
              /\ \/ Cardinality(ends) = k_args.trials
                 \/ k_args.time_limit_min > 0 /\ k_elapsed >= limit

\* With three trials and a limit of one minute, two runs of 30 s each have
\* completed, the limit has stopped the loop and the second result is written.
C24_Witness ==
    /\ k_pc = "exited"
    /\ k_args.trials = 3 /\ k_args.time_limit_min = 1 /\ k_args.measure_time
    /\ k_elapsed = 60000
    /\ k_actual = 2
    /\ k_file = 2
    /\ k_out = [exit |-> 0, reported |-> 2]

(***************************************************************************)
(* The monotonic deque of the sliding windows, an iteration at a time      *)
(* (src/src/lib/morphology/morphology.cpp, 11-93)                          *)
(***************************************************************************)

\* The longest row and the largest radius of the model, and the sample values.
MaxWindowLen == 4

MaxWindowRadius == 3

WindowLevels == {0, 1, 2}

\* Rows of 1 .. MaxWindowLen samples, as functions on 0 .. len-1.
WindowRows == UNION {[0 .. len - 1 -> WindowLevels] : len \in 1 .. MaxWindowLen}

\* The callers pass r = kernel_size / 2 >= 1 and a copy of the source as dst.
DequeCallInit ==
    /\ \E src \in WindowRows, r \in 1 .. MaxWindowRadius, kind \in {"max", "min"} :
          /\ q_in = [kind |-> kind, src |-> src, len |-> Cardinality(DOMAIN src), r |-> r]
          /\ q_st = DequeInit(src, Cardinality(DOMAIN src))
    /\ q_i = 0
    /\ MorphIdle /\ IntIdle /\ EnhIdle /\ AmfIdle /\ AgIdle /\ BinIdle /\ CtIdle /\ CpIdle /\ OtIdle /\ BcIdle /\ DkIdle /\ LuIdle /\ CliIdle /\ HxIdle /\ SrIdle /\ MdIdle

\* One pass of for (int i = 0; i < len + r; ++i) in sliding_window_max.
SlideMax ==
    /\ q_in.kind = "max"
    /\ q_i < q_in.len + q_in.r
    /\ q_st' = MaxStep(q_in.src, q_in.len, q_in.r, q_i, q_st)
    /\ q_i' = q_i + 1
    /\ UNCHANGED <<q_in, dqOthers>>

\* One pass of the loop of sliding_window_min.
SlideMin ==
    /\ q_in.kind = "min"
    /\ q_i < q_in.len + q_in.r
    /\ q_st' = MinStep(q_in.src, q_in.len, q_in.r, q_i, q_st)
    /\ q_i' = q_i + 1
    /\ UNCHANGED <<q_in, dqOthers>>

DequeNext == SlideMax \/ SlideMin

SpecDeque == DequeCallInit /\ [][DequeNext]_vars

\* The extremum of src over the window of radius r around c, clipped to the row.
WindowExtremum(kind, src, len, r, c) ==
    LET vals == {src[k] : k \in Max2(0, c - r) .. Min2(len - 1, c + r)}
    IN  IF kind = "max" THEN CHOOSE v \in vals : \A u \in vals : u <= v
        ELSE CHOOSE v \in vals : \A u \in vals : v <= u

\* C25: after every iteration of sliding_window_max / sliding_window_min,
\* 0 <= head <= tail <= len; the indices between head and tail are strictly
\* increasing, inside [0, len) and inside the window that ends at the last
\* index pushed; their values are strictly decreasing (max) / increasing
\* (min); the deque is non-empty when an in-range centre has just been written;
\* and every centre written so far holds the extremum of its window.
C25_DequeInvariants ==
    LET src == q_in.src
        len == q_in.len
        r == q_in.r
        last == q_i - 1
        held == q_st.head .. q_st.tail - 1
    IN  /\ 0 <= q_st.head /\ q_st.head <= q_st.tail /\ q_st.tail <= len
        /\ \A j \in held :
              /\ q_st.q[j] \in 0 .. len - 1
              /\ q_st.q[j] >= last - 2 * r /\ q_st.q[j] <= last
        /\ \A j \in held : j + 1 \in held =>
              /\ q_st.q[j] < q_st.q[j + 1]
              /\ q_in.kind = "max" => src[q_st.q[j]] > src[q_st.q[j + 1]]
              /\ q_in.kind = "min" => src[q_st.q[j]] < src[q_st.q[j + 1]]
        /\ (last - r \in 0 .. len - 1) => q_st.head < q_st.tail
        /\ \A c \in 0 .. len - 1 :
              IF c <= last - r
              THEN q_st.dst[c] = WindowExtremum(q_in.kind, src, len, r, c)
              ELSE q_st.dst[c] = src[c]

\* sliding_window_max has finished on the row (1, 2, 2, 0) with radius 1: the
\* deque holds the indices 2 and 3 and the row has become (2, 2, 2, 2).
C25_Witness ==
    /\ q_in.kind = "max" /\ q_in.len = 4 /\ q_in.r = 1
    /\ q_in.src = (0 :> 1) @@ (1 :> 2) @@ (2 :> 2) @@ (3 :> 0)
    /\ q_i = 5
    /\ q_st.tail - q_st.head = 2
    /\ q_st.q[q_st.head] = 2 /\ q_st.q[q_st.head + 1] = 3
    /\ q_st.dst = (0 :> 2) @@ (1 :> 2) @@ (2 :> 2) @@ (3 :> 2)

(***************************************************************************)
(* The histogram of the adaptive median filter, a ring at a time           *)
(* (src/src/lib/filters/filters.cpp, 356-367 and 462-546)                  *)
(*                                                                         *)
(* One row-block that covers the whole raster (h <= block_h, y0 = 0): its  *)
(* buffer is copied, then the pixels are processed in order, the histogram *)
(* being carried from one pixel to the next.                               *)
(***************************************************************************)

\* The window sizes of the model: the usual ones, and the first one whose
\* (2r+1)^2 samples no longer fit a 16-bit bin.
HistWindows == {3, 5, 7}

WideWindow == 257

\* 2 x 2 rasters over AmfLevels with the usual windows, and the grey 2 x 2
\* raster with the wide one.
HistInputs ==
    {[img |-> MkImg(2, 2, p), max_r |-> MaxRadius(m)] :
        p \in Planes(2, 2, AmfLevels), m \in HistWindows}
    \cup {[img |-> MkImg(2, 2, [y \in 0 .. 1 |-> [x \in 0 .. 1 |-> 128]]),
           max_r |-> MaxRadius(WideWindow)]}

\* The buffer of the block with its halo: row yy is a copy of image row
\* clampi(y0 + yy - max_r, 0, h - 1), y0 = 0.
HaloBuffer(img, max_r) ==
    Eval([yy \in 0 .. img.h + 2 * max_r - 1 |-> img.px[0][HaloSource(0, yy, max_r, img.h)]])

HistInit ==
    /\ h_in \in HistInputs
    /\ h_src = HaloBuffer(h_in.img, h_in.max_r)
    /\ h_px = [x |-> 0, y |-> 0, r |-> 0, outv |-> 0]
    /\ h_st = [hist |-> ZeroHist, touched |-> <<>>]
    /\ h_pc = "pixel"
    /\ MorphIdle /\ IntIdle /\ EnhIdle /\ AmfIdle /\ AgIdle /\ BinIdle /\ CtIdle /\ CpIdle /\ OtIdle /\ BcIdle /\ DkIdle /\ LuIdle /\ CliIdle /\ DqIdle /\ SrIdle /\ MdIdle

\* The 3 x 3 stage of a pixel: the value is settled at once (continue), or
\* the nine samples start the histogram.
HistStageA ==
    /\ h_pc = "pixel"
    /\ LET w == h_in.img.w
           x == h_px.x
           by == h_px.y + h_in.max_r
           xm1 == IF x = 0 THEN 0 ELSE x - 1
           xp1 == IF x = w - 1 THEN w - 1 ELSE x + 1
           p == Eval([i \in 0 .. 8 |->
                       h_src[by + (i \div 3) - 1]
                            [IF i % 3 = 0 THEN xm1 ELSE IF i % 3 = 1 THEN x ELSE xp1]])
           zmed == median9(p)
           zmin == SetMin({p[i] : i \in 0 .. 8})
           zmax == SetMax({p[i] : i \in 0 .. 8})
       IN  IF zmed > zmin /\ zmed < zmax
           THEN /\ h_px' = [h_px EXCEPT !.outv = StageB(h_src[by][x], zmin, zmed, zmax)]
                /\ h_pc' = "next"
                /\ UNCHANGED h_st
           ELSE /\ h_st' = hist_add_all([hist |-> h_st.hist, touched |-> <<>>],
                                        [k \in 1 .. 9 |-> p[k - 1]], 9)
                /\ h_px' = [h_px EXCEPT !.r = 1, !.outv = zmed]
                /\ h_pc' = IF h_in.max_r >= 2 THEN "expand" ELSE "reset"
    /\ UNCHANGED <<h_in, h_src, hxOthers>>

\* One pass of for (int r = 2; r <= max_r; ++r): the ring is added, the
\* median looked up, and the loop left by break or by r reaching max_r.
HistExpand ==
    /\ h_pc = "expand"
    /\ LET w == h_in.img.w
           x == h_px.x
           by == h_px.y + h_in.max_r
           r == h_px.r + 1
           ring == Eval(Ring(h_src, w, by, x, r))
           st1 == hist_add_all(h_st, ring, Len(ring))
           m == hist_min_med_max(st1.hist, (2 * r + 1) * (2 * r + 1))
           found == m.zmed > m.zmin /\ m.zmed < m.zmax
       IN  /\ h_st' = st1
           /\ h_px' = [h_px EXCEPT !.r = r,
                          !.outv = IF found THEN StageB(h_src[by][x], m.zmin, m.zmed, m.zmax)
                                   ELSE m.zmed]
           /\ h_pc' = IF found \/ r >= h_in.max_r THEN "reset" ELSE "expand"
    /\ UNCHANGED <<h_in, h_src, hxOthers>>

\* out[x] = outv; hist_reset(hist, touched, ntouched);
HistReset ==
    /\ h_pc = "reset"
    /\ h_st' = [hist |-> hist_reset(h_st), touched |-> <<>>]
    /\ h_pc' = "next"
    /\ UNCHANGED <<h_in, h_src, h_px, hxOthers>>

\* ++x, and ++y at the end of a row.
HistNextPixel ==
    /\ h_pc = "next"
    /\ LET last_x == h_px.x + 1 = h_in.img.w
           last_y == h_px.y + 1 = h_in.img.h
       IN  /\ h_px' = [x |-> IF last_x THEN 0 ELSE h_px.x + 1,
                       y |-> IF last_x THEN h_px.y + 1 ELSE h_px.y,
                       r |-> 0, outv |-> 0]
           /\ h_pc' = IF last_x /\ last_y THEN "done" ELSE "pixel"
    /\ UNCHANGED <<h_in, h_src, h_st, hxOthers>>

HistNext == HistStageA \/ HistExpand \/ HistReset \/ HistNextPixel

SpecAmfHist == HistInit /\ [][HistNext]_vars

\* The sample of the replicate-clamped window of the pixel in hand at offset
\* c = <<dx, dy>>, as the bin it is counted in.
WindowBin(c) ==
    h_in.img.px[0][clampi(h_px.y + c[2], 0, h_in.img.h - 1)]
                  [clampi(h_px.x + c[1], 0, h_in.img.w - 1)] % 256

\* C26: whenever the window of a pixel has been expanded to radius r,
\* 2 <= r <= max_r, every bin of the histogram holds the number of samples of
\* that value among the (2r+1)^2 samples of the replicate-clamped window
\* centred on the pixel; and when a pixel is finished every bin is zero.
C26_HistogramIsWindow ==
    /\ (h_pc \in {"expand", "reset"} /\ h_px.r >= 2) =>
          LET cells == (-h_px.r .. h_px.r) \X (-h_px.r .. h_px.r)
              bins == {WindowBin(c) : c \in cells}
          IN  \A b \in 0 .. 255 :
                 h_st.hist[b] = IF b \in bins
                                THEN Cardinality({c \in cells : WindowBin(c) = b})
                                ELSE 0
    /\ h_pc \in {"pixel", "next", "done"} => h_st.hist = ZeroHist

(***************************************************************************)
(* The parallel angle search (src/src/lib/geometry/geometry.cpp, 41-81)    *)
(*                                                                         *)
(* The N grid angles a_i = start_deg + i * step_deg increase with i, so an *)
(* angle is written as its index i; NoAngle stands for the initial         *)
(* best_angle = 0.0 with best_score = -1.0.  score_angle_variance does not *)
(* change anything, so the score of index i is scores[i + 1].              *)
(***************************************************************************)

MaxAngles == 3

MaxSearchWorkers == 3

SearchScores == {0, 1, 2}

NoAngle == -1

NoScore == -1

\* if (s > local_best_s) { local_best_s = s; local_best_a = a; } for the
\* iterations lo .. hi of one thread, in order, from the local best loc.
RECURSIVE LocalBest(_, _, _, _)
LocalBest(scores, lo, hi, loc) ==
    IF lo > hi THEN loc
    ELSE LocalBest(scores, lo + 1, hi,
                   IF scores[lo + 1] > loc.s THEN [a |-> lo, s |-> scores[lo + 1]] ELSE loc)

\* if (local_best_s > best_score) { best_score = local_best_s; best_angle = local_best_a; }
MergeBest(best, loc) == IF loc.s > best.s THEN loc ELSE best

\* The iterations of thread t under schedule(static): a contiguous chunk.
Chunk(t, N, workers) == {i \in 0 .. N - 1 : Owner(i, N, workers) = t}

SearchInit ==
    /\ s_in \in [scores : UNION {[1 .. N -> SearchScores] : N \in 1 .. MaxAngles},
                 workers : 1 .. MaxSearchWorkers]
    /\ s_thr = [t \in 0 .. s_in.workers - 1 |-> [pc |-> "loop", a |-> NoAngle, s |-> NoScore]]
    /\ s_best = [a |-> NoAngle, s |-> NoScore]
    /\ s_pc = "parallel"
    /\ MorphIdle /\ IntIdle /\ EnhIdle /\ AmfIdle /\ AgIdle /\ BinIdle /\ CtIdle /\ CpIdle /\ OtIdle /\ BcIdle /\ DkIdle /\ LuIdle /\ CliIdle /\ DqIdle /\ HxIdle /\ MdIdle

\* Thread t runs its share of the omp for loop (nowait: it goes on to the
\* critical section without waiting for the others).
SearchLoop ==
    /\ s_pc = "parallel"
    /\ \E t \in DOMAIN s_thr :
          /\ s_thr[t].pc = "loop"
          /\ LET mine == Chunk(t, Len(s_in.scores), s_in.workers)
                 loc == IF mine = {} THEN [a |-> NoAngle, s |-> NoScore]
                        ELSE LocalBest(s_in.scores, SetMin(mine), SetMax(mine),
                                       [a |-> NoAngle, s |-> NoScore])
             IN  s_thr' = [s_thr EXCEPT ![t] = [pc |-> "critical", a |-> loc.a, s |-> loc.s]]
    /\ UNCHANGED <<s_in, s_best, s_pc, srOthers>>

\* Thread t passes the critical section, one thread at a time.
SearchMerge ==
    /\ s_pc = "parallel"
    /\ \E t \in DOMAIN s_thr :
          /\ s_thr[t].pc = "critical"
          /\ s_best' = MergeBest(s_best, [a |-> s_thr[t].a, s |-> s_thr[t].s])
          /\ s_thr' = [s_thr EXCEPT ![t].pc = "done"]
    /\ UNCHANGED <<s_in, s_pc, srOthers>>

\* The end of the parallel region and return {best_angle, best_score}.
SearchReturn ==
    /\ s_pc = "parallel"
    /\ \A t \in DOMAIN s_thr : s_thr[t].pc = "done"
    /\ s_pc' = "returned"
    /\ UNCHANGED <<s_in, s_thr, s_best, srOthers>>

SearchNext == SearchLoop \/ SearchMerge \/ SearchReturn

SpecSearch == SearchInit /\ [][SearchNext]_vars

\* C28: search_best_angle returns the same (angle, score) pair whatever the
\* number of threads and the order in which they pass the critical section:
\* the pair one thread alone returns, the first grid angle of the highest
\* score.
C28_SearchResultDeterministic ==
    s_pc = "returned" =>
        s_best = LocalBest(s_in.scores, 0, Len(s_in.scores) - 1,
                           [a |-> NoAngle, s |-> NoScore])

(***************************************************************************)
(* The two medians of the adaptive median filter on the same nine samples  *)
(* (src/src/lib/filters/filters.cpp, 320-353 and 369-396)                  *)
(***************************************************************************)

\* The samples are spread over 0 .. 255 in MaxMedianRank steps.
MaxMedianRank == 2

MedianLevels == {(255 * k) \div MaxMedianRank : k \in 0 .. MaxMedianRank}

NoMedian == -1

MedianInit ==
    /\ v_p \in [0 .. 8 -> MedianLevels]
    /\ v_net = NoMedian
    /\ v_hist = NoMedian
    /\ MorphIdle /\ IntIdle /\ EnhIdle /\ AmfIdle /\ AgIdle /\ BinIdle /\ CtIdle /\ CpIdle /\ OtIdle /\ BcIdle /\ DkIdle /\ LuIdle /\ CliIdle /\ DqIdle /\ HxIdle /\ SrIdle

\* uint zmed = median9(p0, p1, p2, p3, p4, p5, p6, p7, p8);
Median9Call ==
    /\ v_net = NoMedian
    /\ v_net' = median9(v_p)
    /\ UNCHANGED <<v_p, v_hist, mdOthers>>

\* Nine hist_add calls on an empty histogram, then
\* hist_min_med_max(hist, 9, zmin, zmed, zmax).
HistMedianCall ==
    /\ v_hist = NoMedian
    /\ LET st == hist_add_all([hist |-> ZeroHist, touched |-> <<>>],
                              [k \in 1 .. 9 |-> v_p[k - 1]], 9)
       IN  v_hist' = hist_min_med_max(st.hist, 9).zmed
    /\ UNCHANGED <<v_p, v_net, mdOthers>>

MedianNext == Median9Call \/ HistMedianCall

SpecMedian == MedianInit /\ [][MedianNext]_vars

\* v is the 5th smallest of the nine samples: at most four are smaller and at
\* least five are not larger.
FifthSmallest(v) ==
    /\ Cardinality({i \in 0 .. 8 : v_p[i] < v}) <= 4
    /\ Cardinality({i \in 0 .. 8 : v_p[i] <= v}) >= 5

\* C30: median9 returns the 5th smallest of its nine arguments, and
\* hist_min_med_max with total = 9 on the histogram of the same nine samples
\* gives the same value.
C30_MediansAgree ==
    /\ v_net # NoMedian => FifthSmallest(v_net)
    /\ (v_net # NoMedian /\ v_hist # NoMedian) => v_net = v_hist

\* Both medians of (255, 0, 127, 0, 255, 127, 255, 0, 127) have been taken
\* and are 127.
C30_Witness ==
    /\ v_p = [i \in 0 .. 8 |-> IF i % 3 = 0 THEN 255 ELSE IF i % 3 = 1 THEN 0 ELSE 127]
    /\ v_net = 127
    /\ v_hist = 127

====
